---- MODULE Spec2Model ----
(***************************************************************************)
(* Model of the tensornode backend: the TAO distribution engine            *)
(* (backend/scripts/mint_tao_daily.py) and the VM allocation registry      *)
(* (backend/server.py).                                                    *)
(***************************************************************************)
EXTENDS Integers, Sequences, FiniteSets, TLC

(***************************************************************************)
(* Bounds of the model.                                                    *)
(***************************************************************************)
MaxTotal == 8
MaxScore == 4
MaxRecords == 2
MaxTime == 1
MaxTruthWords == 2
MaxCandWords == 1
MaxContent == 2
MaxPairs == 3
MaxBatch == 3
MaxRuns == 3
MaxClock == 3

(***************************************************************************)
(* Accounts.  BeneficiaryA and BeneficiaryB are the two fixed recipients   *)
(* of _compute_distribution.                                               *)
(***************************************************************************)
BeneficiaryA == "0.0.5864744"
BeneficiaryB == "0.0.6914866"

\* Wallets a score map may hold, in the order a map built from them is
\* iterated; a beneficiary and a validator account are among them.
WalletOrder == <<"P1", BeneficiaryA, "V1">>

\* Accounts a validator list may hold; "P1" is also a scored wallet.
ValidatorAccounts == {"V1", "V2", "P1"}

ScoreValues == {0 - 1} \cup (0 .. MaxScore)

\* 0.35 * 180 is 62.99999999999999 as an IEEE-754 double; a total of 20
\* makes a validator pool of 5.
Totals == (0 .. MaxTotal) \cup {20, 180}

VARIABLES
    pc,               \* position in _compute_distribution
    total,            \* argument total
    avg_scores,       \* argument avg_scores: sequence of <<wallet, score>> in dict order
    validators,       \* argument validators
    payouts,          \* local payouts: sequence of <<account, amount>>
    miner_alloc_total,\* local miner_alloc_total
    distributed,      \* local distributed (line 185, reassigned at line 202)
    minerPlan,        \* payouts as they are when the validator split starts
    leftover,         \* returned leftover
    file,             \* content of DEPLOYMENTS_FILE: a sequence of JSON items
    sameFile,         \* HISTORY_FILE of fluence/vm.py resolves to DEPLOYMENTS_FILE
    nextVm,           \* number of instances the compute provider has created
    now,              \* the clock read by _utc_now_iso
    lastCall,         \* the last registry call: arguments, registry before, result
    spc,              \* position in _openai_score_answer
    truth,            \* argument truth, a string as its sequence of characters
    candidate,        \* argument candidate
    oracle,           \* what the OpenAI request does: no key, raises, or a response
    score_val,        \* local score_val (NoScore: None)
    scoreOut,         \* the value _openai_score_answer returns
    apc,              \* position in _aggregate_scores
    pairs,            \* argument pairs of _aggregate_scores
    by_wallet,        \* local by_wallet: sequence of <<wallet, scores>> in dict order
    out,              \* local out of _aggregate_scores
    ppc,              \* position in _parse_messages_to_pairs
    messages,         \* argument messages
    msgIdx,           \* number of messages the loop has consumed
    parsedPairs,      \* local pairs of _parse_messages_to_pairs
    last_truth,       \* local last_truth
    last_question,    \* local last_question
    mpc,              \* position in main of mint_tao_daily
    deployment,       \* content of the deployment file (tao_token.json)
    clock,            \* datetime.utcnow(), in hours
    args,             \* arguments of the run: force, min_hours
    mintPlan,         \* payouts, leftover and amount of the run
    tIdx,             \* number of entries of payouts the transfer loop has passed
    ledger,           \* what the token API acknowledged and was asked in this run
    exitCode,         \* the value main returned last
    runs,             \* number of runs started
    proc              \* the concurrent callers of allocate_vm_to_miner

distVars == <<pc, total, avg_scores, validators, payouts, miner_alloc_total,
              distributed, minerPlan, leftover>>

regVars == <<file, sameFile, nextVm, now, lastCall>>

scoreVars == <<spc, truth, candidate, oracle, score_val, scoreOut>>

aggVars == <<apc, pairs, by_wallet, out>>

parseVars == <<ppc, messages, msgIdx, parsedPairs, last_truth, last_question>>

mintVars == <<mpc, deployment, clock, args, mintPlan, tIdx, ledger, exitCode, runs>>

raceVars == <<proc>>

vars == <<distVars, regVars, scoreVars, aggVars, parseVars, mintVars, raceVars>>

(***************************************************************************)
(* Generic helpers.                                                        *)
(***************************************************************************)
\* an absent key of a JSON object (or None); an absent timestamp
NULL == "null"
NoTime == 0 - 1

\* A registry call as its caller sees it: what the provider does when asked,
\* the outcome ("ok" or "error"), the position in the saved registry of the
\* record returned or changed (0: none) and the number of deploy_vm calls
\* made.
Call(op, provider, outcome, returned, deployCalls) ==
    [op |-> op, provider |-> provider, outcome |-> outcome,
     returned |-> returned, deployCalls |-> deployCalls]

NoCall == Call("none", NULL, "none", 0, 0)

\* score_val = None
NoScore == 0 - 1000

\* no call of _openai_score_answer, _aggregate_scores or
\* _parse_messages_to_pairs is under way
ScoreIdle ==
    /\ spc = "idle"
    /\ truth = <<>>
    /\ candidate = <<>>
    /\ oracle = [kind |-> "none"]
    /\ score_val = NoScore
    /\ scoreOut = NoScore

AggIdle ==
    /\ apc = "idle"
    /\ pairs = <<>>
    /\ by_wallet = <<>>
    /\ out = <<>>

ParseIdle ==
    /\ ppc = "idle"
    /\ messages = <<>>
    /\ msgIdx = 0
    /\ parsedPairs = <<>>
    /\ last_truth = NULL
    /\ last_question = NULL

\* the deployment file as main reads it: readable JSON, mint.lastRuns, payouts
Deployment(readable, lastRuns, payoutRecs) ==
    [readable |-> readable, lastRuns |-> lastRuns, payouts |-> payoutRecs]

\* the arguments of a mint run
Args(force, min_hours) == [force |-> force, min_hours |-> min_hours]

\* the distribution plan of a run
Plan(p, l, amount) == [payouts |-> p, leftover |-> l, amount |-> amount]

\* the token API in one run: mints acknowledged, transfers acknowledged,
\* transfer requests sent
Ledger(mints, transfers, requests) ==
    [mints |-> mints, transfers |-> transfers, requests |-> requests]

\* main has not returned yet
NoExit == 0 - 1

\* no run of mint_tao_daily is under way
MintIdle ==
    /\ mpc = "idle"
    /\ deployment = Deployment(TRUE, <<>>, <<>>)
    /\ clock = 0
    /\ args = Args(FALSE, 0)
    /\ mintPlan = Plan(<<>>, 0, 0)
    /\ tIdx = 0
    /\ ledger = Ledger(0, <<>>, 0)
    /\ exitCode = NoExit
    /\ runs = 0

\* no concurrent caller of allocate_vm_to_miner
RaceIdle == proc = <<>>

Max(a, b) == IF a >= b THEN a ELSE b

Range(s) == {s[i] : i \in 1 .. Len(s)}

IsInjective(s) == \A i, j \in 1 .. Len(s) : i # j => s[i] # s[j]

RECURSIVE SumAmounts(_)
\* sum(amount for _, amount in payouts)
SumAmounts(p) == IF p = <<>> THEN 0 ELSE p[1][2] + SumAmounts(Tail(p))

RECURSIVE AmountOf(_, _)
\* total amount the plan p pays to account acc (over all its entries)
AmountOf(p, acc) ==
    IF p = <<>> THEN 0
    ELSE (IF p[1][1] = acc THEN p[1][2] ELSE 0) + AmountOf(Tail(p), acc)

RECURSIVE Pow2(_)
Pow2(n) == IF n = 0 THEN 1 ELSE 2 * Pow2(n - 1)

RECURSIVE FloorLog2(_)
\* exponent of the binade of the positive integer n
FloorLog2(n) == IF n < 2 THEN 0 ELSE 1 + FloorLog2(n \div 2)

(***************************************************************************)
(* IEEE-754 double arithmetic of the pool computations, lines 141-144.     *)
(* 0.20 is stored slightly above 1/5 and 0.25 exactly, so the floor of the *)
(* product is the integer quotient.  0.35 is stored as 0.35 - 0.4*2^-54:   *)
(* when 35*total/100 is an integer k whose significand exceeds 1.75, the   *)
(* product rounds to the double just below k and the floor is k - 1.       *)
(***************************************************************************)
FloorMul20(t) == t \div 5

FloorMul25(t) == t \div 4

FloorMul35(t) ==
    LET k == (35 * t) \div 100
    IN  IF (35 * t) % 100 = 0 /\ k > 0 /\ 4 * k > 7 * Pow2(FloorLog2(k))
        THEN k - 1
        ELSE k

\* the miner pool taken at the validators' percentage
miners_pool_swapped(t) == FloorMul25(t)

a_fixed(t) == FloorMul20(t)
b_fixed(t) == FloorMul20(t)
miners_pool(t) == FloorMul35(t)
validators_pool(t) == FloorMul25(t)

(***************************************************************************)
(* The fractional remainder of line 162, frac = raw - base, where          *)
(* raw = (miners_pool * s) / score_sum is the correctly rounded double of  *)
(* num / score_sum.  raw carries 53 significant bits, so the grid it is    *)
(* rounded to depends on its binade; the subtraction of base is exact.     *)
(* Two fractions are compared from the binary expansion of the exact       *)
(* remainder (num % b) / b, obtained by long division.                     *)
(***************************************************************************)
RECURSIVE FirstOneBit(_, _)
\* position of the first 1 in the binary expansion of rem / b, 0 < rem < b
FirstOneBit(rem, b) ==
    IF 2 * rem >= b THEN 1 ELSE 1 + FirstOneBit(2 * rem, b)

\* number of fractional bits of the double nearest num / b (num % b # 0)
GridBits(num, b) ==
    IF num \div b >= 1
    THEN 52 - FloorLog2(num \div b)
    ELSE 52 + FirstOneBit(num % b, b)

\* round-half-even decision after a bit `bit` with remainder rem / b
RoundUp(rem, bit, b) == 2 * rem > b \/ (2 * rem = b /\ bit = 1)

RECURSIVE RoundWalk(_, _, _, _, _, _, _, _, _)
\* Long division of r / b to k2 bits: whether rounding to k1 bits and to
\* k2 bits (k1 < k2) rounds up, and what the bits k1+1 .. k2 are.
RoundWalk(b, k1, k2, i, rem, bit, up1, midAny, midAll) ==
    LET u1 == IF i = k1 THEN RoundUp(rem, bit, b) ELSE up1
    IN  IF i = k2
        THEN [up1 |-> u1, midAny |-> midAny, midAll |-> midAll,
              up2 |-> RoundUp(rem, bit, b)]
        ELSE LET d == IF 2 * rem >= b THEN 1 ELSE 0
                 nrem == 2 * rem - d * b
             IN  RoundWalk(b, k1, k2, i + 1, nrem, d, u1,
                           IF i >= k1 THEN midAny \/ d = 1 ELSE midAny,
                           IF i >= k1 THEN midAll /\ d = 1 ELSE midAll)

\* sign of round(r/b to k1 bits) - round(r/b to k2 bits), k1 < k2
CoarseMinusFine(r, b, k1, k2) ==
    LET w == RoundWalk(b, k1, k2, 0, r, 0, FALSE, FALSE, TRUE)
    IN  IF w.up1
        THEN (IF w.midAll /\ w.up2 THEN 0 ELSE 1)
        ELSE (IF w.midAny \/ w.up2 THEN 0 - 1 ELSE 0)

\* sign of frac_i - frac_j for raw_i = ni / b and raw_j = nj / b
FracSign(ni, nj, b) ==
    LET ri == ni % b
        rj == nj % b
    IN  IF ri # rj THEN (IF ri > rj THEN 1 ELSE 0 - 1)
        ELSE IF ri = 0 THEN 0
        ELSE LET ki == GridBits(ni, b)
                 kj == GridBits(nj, b)
             IN  IF ki = kj THEN 0
                 ELSE IF ki < kj THEN CoarseMinusFine(ri, b, ki, kj)
                 ELSE 0 - CoarseMinusFine(ri, b, kj, ki)

(***************************************************************************)
(* _compute_distribution, lines 146-183: fixed recipients and the miner    *)
(* pool.                                                                   *)
(***************************************************************************)
\* lines 147-150
FixedRecipients(t) ==
    (IF a_fixed(t) > 0 THEN <<<<BeneficiaryA, a_fixed(t)>>>> ELSE <<>>)
    \o (IF b_fixed(t) > 0 THEN <<<<BeneficiaryB, b_fixed(t)>>>> ELSE <<>>)

\* the score taken as it is, without the clamp
ClampScoreNone(s) == s

\* the clamp of line 153: max(0, int(s))
ClampScore(s) == Max(0, s)

\* line 153: [(w, max(0, int(s))) for w, s in avg_scores.items()]
miner_items(scores) ==
    [i \in 1 .. Len(scores) |-> <<scores[i][1], ClampScore(scores[i][2])>>]

RECURSIVE SumScores(_)
\* line 154
SumScores(items) ==
    IF items = <<>> THEN 0 ELSE items[1][2] + SumScores(Tail(items))

score_sum(scores) == SumScores(miner_items(scores))

\* lines 160-161: base = floor((miners_pool * s) / score_sum); the double
\* quotient of two small integers has the integer quotient as its floor
BaseShare(pool, s, ssum) == (pool * s) \div ssum

\* lines 159-166: shares, each <<wallet, base, num>> where num / score_sum
\* is the raw share whose fractional part is the sort key
shares(pool, items, ssum) ==
    [i \in 1 .. Len(items) |->
        <<items[i][1], BaseShare(pool, items[i][2], ssum), pool * items[i][2]>>]

RECURSIVE FloorPass(_, _)
\* lines 163-165: the floor amounts appended to payouts
FloorPass(p, sh) ==
    IF sh = <<>> THEN p
    ELSE FloorPass(IF sh[1][2] > 0 THEN Append(p, <<sh[1][1], sh[1][2]>>) ELSE p,
                   Tail(sh))

RECURSIVE SumBases(_)
\* miner_alloc_total after the first pass
SumBases(sh) == IF sh = <<>> THEN 0
                ELSE (IF sh[1][2] > 0 THEN sh[1][2] ELSE 0) + SumBases(Tail(sh))

\* the sort without reverse=True: the smaller fraction first
SortsBeforeAscending(x, y, ssum) == FracSign(x[3], y[3], ssum) < 0

\* the order of line 170: x sorts before y when its fraction is larger
SortsBefore(x, y, ssum) == FracSign(x[3], y[3], ssum) > 0

RECURSIVE InsertShare(_, _, _)
\* x goes behind every element that does not sort after it (stable)
InsertShare(sorted, x, ssum) ==
    IF sorted = <<>> THEN <<x>>
    ELSE IF SortsBefore(x, sorted[1], ssum) THEN <<x>> \o sorted
    ELSE <<sorted[1]>> \o InsertShare(Tail(sorted), x, ssum)

RECURSIVE SortShares(_, _, _)
\* line 170: shares.sort(key=lambda x: x[2], reverse=True), a stable sort
SortShares(done, rest, ssum) ==
    IF rest = <<>> THEN done
    ELSE SortShares(InsertShare(done, rest[1], ssum), Tail(rest), ssum)

\* index of the first entry of p for account w, 0 when there is none
FirstEntry(p, w) ==
    IF \E i \in 1 .. Len(p) : p[i][1] = w
    THEN CHOOSE i \in 1 .. Len(p) :
            p[i][1] = w /\ \A j \in 1 .. i - 1 : p[j][1] # w
    ELSE 0

\* lines 175-180: bump the first entry of w by one, else append (w, 1)
BumpOrAppend(p, w) ==
    LET i == FirstEntry(p, w)
    IN  IF i = 0 THEN Append(p, <<w, 1>>)
        ELSE [p EXCEPT ![i] = <<w, p[i][2] + 1>>]

RECURSIVE RemainderLoopStuck(_, _, _, _)
\* the loop with idx never advanced: every unit goes to the top share
RemainderLoopStuck(p, sorted, remaining, idx) ==
    IF remaining > 0 /\ idx < Len(sorted)
    THEN RemainderLoopStuck(BumpOrAppend(p, sorted[idx + 1][1]), sorted,
                            remaining - 1, idx)
    ELSE p

RECURSIVE RemainderLoop(_, _, _, _)
\* lines 172-183: while remaining > 0 and idx < len(shares)
RemainderLoop(p, sorted, remaining, idx) ==
    IF remaining > 0 /\ idx < Len(sorted)
    THEN RemainderLoop(BumpOrAppend(p, sorted[idx + 1][1]), sorted,
                       remaining - 1, idx + 1)
    ELSE p

\* number of units the loop of lines 172-183 hands out
UnitsHandedOut(sorted, remaining) ==
    IF remaining > 0
    THEN (IF remaining < Len(sorted) THEN remaining ELSE Len(sorted))
    ELSE 0

\* a pool nobody scored for is split in equal parts among the scored wallets
MinersAllocationEqualSplit(p, t, scores) ==
    LET pool == miners_pool(t)
        items == miner_items(scores)
        ssum == score_sum(scores)
    IN  IF pool > 0 /\ ssum > 0 /\ items # <<>>
        THEN LET sh == shares(pool, items, ssum)
                 floored == FloorPass(p, sh)
                 remaining == pool - SumBases(sh)
             IN  IF remaining > 0
                 THEN RemainderLoop(floored, SortShares(<<>>, sh, ssum),
                                    remaining, 0)
                 ELSE floored
        ELSE IF pool > 0 /\ items # <<>>
        THEN p \o [i \in 1 .. Len(items) |-> <<items[i][1], pool \div Len(items)>>]
        ELSE p

\* lines 152-183: payouts after the miner allocation
MinersAllocation(p, t, scores) ==
    LET pool == miners_pool(t)
        items == miner_items(scores)
        ssum == score_sum(scores)
    IN  IF pool > 0 /\ ssum > 0 /\ items # <<>>
        THEN LET sh == shares(pool, items, ssum)
                 floored == FloorPass(p, sh)
                 remaining == pool - SumBases(sh)
             IN  IF remaining > 0
                 THEN RemainderLoop(floored, SortShares(<<>>, sh, ssum),
                                    remaining, 0)
                 ELSE floored
        ELSE p

\* miner_alloc_total at line 183
MinerAllocTotal(t, scores) ==
    LET pool == miners_pool(t)
        items == miner_items(scores)
        ssum == score_sum(scores)
    IN  IF pool > 0 /\ ssum > 0 /\ items # <<>>
        THEN LET sh == shares(pool, items, ssum)
                 remaining == pool - SumBases(sh)
             IN  SumBases(sh) + UnitsHandedOut(sh, remaining)
        ELSE 0

(***************************************************************************)
(* _compute_distribution, lines 185-204: the validator split and leftover. *)
(***************************************************************************)
RECURSIVE AppendEach(_, _, _)
\* lines 190-192
AppendEach(p, vals, each) ==
    IF vals = <<>> THEN p
    ELSE AppendEach(IF each > 0 THEN Append(p, <<vals[1], each>>) ELSE p,
                    Tail(vals), each)

\* lines 197-200: bump the first entry of acc by one; no entry, no bump
BumpIfPresent(p, acc) ==
    LET j == FirstEntry(p, acc)
    IN  IF j = 0 THEN p ELSE [p EXCEPT ![j] = <<acc, p[j][2] + 1>>]

RECURSIVE RemainderBumpsFirst(_, _, _, _)
\* every remainder unit given to the first validator
RemainderBumpsFirst(p, vals, remainder, i) ==
    IF i < remainder
    THEN RemainderBumpsFirst(BumpIfPresent(p, vals[1]), vals, remainder, i + 1)
    ELSE p

RECURSIVE RemainderBumps(_, _, _, _)
\* lines 194-200: for i in range(remainder): acc = validators[i % len]
RemainderBumps(p, vals, remainder, i) ==
    IF i < remainder
    THEN RemainderBumps(BumpIfPresent(p, vals[(i % Len(vals)) + 1]), vals,
                        remainder, i + 1)
    ELSE p

\* lines 187-200
ValidatorsSplit(p, t, vals) ==
    LET pool == validators_pool(t)
    IN  IF pool > 0 /\ vals # <<>>
        THEN LET each == pool \div Len(vals)
                 remainder == pool - each * Len(vals)
             IN  RemainderBumps(AppendEach(p, vals, each), vals, remainder, 0)
        ELSE p

\* leftover taken from the sum of line 185, before the validator split
LeftoverStale(t, p, stale) == t - stale

\* lines 202-203: leftover = total - sum of the final payouts
Leftover(t, p, stale) == t - SumAmounts(p)

(***************************************************************************)
(* The inputs of _compute_distribution.                                    *)
(***************************************************************************)
\* the subsequences of WalletOrder, as index lists
WalletLists ==
    {w \in UNION {[1 .. n -> 1 .. Len(WalletOrder)] : n \in 0 .. Len(WalletOrder)} :
        \A i \in 1 .. Len(w) - 1 : w[i] < w[i + 1]}

ScoreMaps ==
    UNION {{[i \in 1 .. Len(w) |-> <<WalletOrder[w[i]], sc[i]>>] :
                sc \in [1 .. Len(w) -> ScoreValues]} : w \in WalletLists}

ValidatorLists ==
    {v \in UNION {[1 .. n -> ValidatorAccounts] :
                     n \in 0 .. Cardinality(ValidatorAccounts)} :
        IsInjective(v)}

\* the scenario of the specification: 7200 tokens, two miners, three validators
ScenarioScores == <<<<"P1", 50>>, <<"P2", 150>>>>
ScenarioValidators == <<"V1", "V2", "V3">>

DistInit ==
    /\ pc = "fixed"
    /\ \/ /\ total \in Totals
          /\ avg_scores \in ScoreMaps
          /\ validators \in ValidatorLists
       \/ /\ total = 7200
          /\ avg_scores = ScenarioScores
          /\ validators = ScenarioValidators
    /\ payouts = <<>>
    /\ miner_alloc_total = 0
    /\ distributed = 0
    /\ minerPlan = <<>>
    /\ leftover = 0
    /\ file = <<>>
    /\ sameFile = FALSE
    /\ nextVm = 0
    /\ now = 0
    /\ lastCall = NoCall
    /\ ScoreIdle
    /\ AggIdle
    /\ ParseIdle
    /\ MintIdle
    /\ RaceIdle

\* lines 140-150
DoFixed ==
    /\ pc = "fixed"
    /\ payouts' = FixedRecipients(total)
    /\ pc' = "miners"
    /\ UNCHANGED <<total, avg_scores, validators, miner_alloc_total,
                   distributed, minerPlan, leftover>>
    /\ UNCHANGED <<regVars, scoreVars, aggVars, parseVars, mintVars, raceVars>>

\* lines 152-185
DoMiners ==
    /\ pc = "miners"
    /\ payouts' = MinersAllocation(payouts, total, avg_scores)
    /\ miner_alloc_total' = MinerAllocTotal(total, avg_scores)
    /\ distributed' = SumAmounts(payouts')
    /\ minerPlan' = payouts'
    /\ pc' = "validators"
    /\ UNCHANGED <<total, avg_scores, validators, leftover>>
    /\ UNCHANGED <<regVars, scoreVars, aggVars, parseVars, mintVars, raceVars>>

\* lines 186-204
DoValidators ==
    /\ pc = "validators"
    /\ payouts' = ValidatorsSplit(payouts, total, validators)
    /\ distributed' = SumAmounts(payouts')
    /\ leftover' = Leftover(total, payouts', distributed)
    /\ pc' = "done"
    /\ UNCHANGED <<total, avg_scores, validators, miner_alloc_total, minerPlan>>
    /\ UNCHANGED <<regVars, scoreVars, aggVars, parseVars, mintVars, raceVars>>

DistNext == DoFixed \/ DoMiners \/ DoValidators

DistSpec == DistInit /\ [][DistNext]_vars

(***************************************************************************)
(* Properties of _compute_distribution.                                    *)
(***************************************************************************)
Returned == pc = "done"

AfterMiners == pc \in {"validators", "done"}

\* what account w received from the miner pool
MinerAmount(w) == AmountOf(minerPlan, w) - AmountOf(FixedRecipients(total), w)

\* what account v received from the validator pool
ValidatorGain(v) == AmountOf(payouts, v) - AmountOf(minerPlan, v)

MinerPoolOpen == miners_pool(total) > 0 /\ score_sum(avg_scores) > 0

\* C1: the payout amounts of the returned plan and the leftover add up to
\* total exactly.
C1_Conservation ==
    Returned => SumAmounts(payouts) + leftover = total

C1_Witness ==
    /\ Returned
    /\ leftover > 0
    /\ \E i \in 1 .. Len(avg_scores) : MinerAmount(avg_scores[i][1]) > 0
    /\ \E i \in 1 .. Len(validators) : ValidatorGain(validators[i]) > 0

\* C2: the returned leftover is >= 0 and every amount of the plan is a
\* non-negative integer, with negative scores and with validators that are
\* also miners or beneficiaries.
C2_NonNegative ==
    /\ \A i \in 1 .. Len(payouts) : payouts[i][2] \in Nat
    /\ Returned => leftover >= 0

C2_Witness ==
    /\ Returned
    /\ leftover >= 0
    /\ \E i \in 1 .. Len(avg_scores) : avg_scores[i][2] < 0
    /\ \E i \in 1 .. Len(avg_scores), j \in 1 .. Len(validators) :
          /\ avg_scores[i][1] = validators[j]
          /\ avg_scores[i][2] > 0
          /\ ValidatorGain(validators[j]) > 0

\* The largest-remainder apportionment on exact fractions: participant i
\* gets an extra unit when fewer than `remaining` participants come before
\* it in descending order of (pool * score) mod scoreSum, ties by position.
ExactRemainder(i) ==
    (miners_pool(total) * miner_items(avg_scores)[i][2]) % score_sum(avg_scores)

ExactBase(i) ==
    (miners_pool(total) * miner_items(avg_scores)[i][2]) \div score_sum(avg_scores)

RECURSIVE SumExactBase(_)
SumExactBase(n) == IF n = 0 THEN 0 ELSE ExactBase(n) + SumExactBase(n - 1)

ExactRemaining == miners_pool(total) - SumExactBase(Len(avg_scores))

GetsExtra(i) ==
    Cardinality({j \in 1 .. Len(avg_scores) :
                    \/ ExactRemainder(j) > ExactRemainder(i)
                    \/ ExactRemainder(j) = ExactRemainder(i) /\ j < i})
        < ExactRemaining

LargestRemainder(i) == ExactBase(i) + (IF GetsExtra(i) THEN 1 ELSE 0)

RECURSIVE SumMinerAmount(_)
SumMinerAmount(n) ==
    IF n = 0 THEN 0 ELSE MinerAmount(avg_scores[n][1]) + SumMinerAmount(n - 1)

\* C3: with an open miner pool every participant receives its
\* largest-remainder share (floor share, then one unit each in descending
\* order of fractional remainder, ties by encounter order) and the miner
\* amounts sum to the pool.
C3_LargestRemainder ==
    (AfterMiners /\ MinerPoolOpen) =>
        /\ \A i \in 1 .. Len(avg_scores) :
              MinerAmount(avg_scores[i][1]) = LargestRemainder(i)
        /\ SumMinerAmount(Len(avg_scores)) = miners_pool(total)

\* C4: with a non-empty validator list the first (pool mod n) validators
\* receive floor(pool / n) + 1 and the others floor(pool / n).
C4_ValidatorRemainder ==
    (Returned /\ validators # <<>>) =>
        LET pool == total \div 4
            n == Len(validators)
        IN  \A i \in 1 .. n :
                ValidatorGain(validators[i]) =
                    (pool \div n) + (IF i <= pool % n THEN 1 ELSE 0)

\* C5: the validator-pool amounts of any two validators differ by at most 1.
C5_ValidatorEquality ==
    Returned =>
        \A i, j \in 1 .. Len(validators) :
            ValidatorGain(validators[i]) - ValidatorGain(validators[j]) <= 1

C5_Witness ==
    /\ Returned
    /\ Len(validators) = 3
    /\ validators_pool(total) \div 3 > 0
    /\ ValidatorGain(validators[2]) = ValidatorGain(validators[3]) + 1

CeilDiv(a, b) == (a + b - 1) \div b

MaxClampedScore ==
    CHOOSE m \in Range(miner_items(avg_scores)) :
        \A x \in Range(miner_items(avg_scores)) : x[2] <= m[2]

\* C6: no miner-pool amount exceeds ceil(pool * maxScore / scoreSum), each
\* participant gets at most one unit beyond its floor share and the units
\* beyond the floor shares number at most the participants.
C6_ProportionalityBound ==
    (AfterMiners /\ MinerPoolOpen) =>
        /\ \A i \in 1 .. Len(avg_scores) :
              /\ MinerAmount(avg_scores[i][1])
                    <= CeilDiv(miners_pool(total) * MaxClampedScore[2],
                               score_sum(avg_scores))
              /\ MinerAmount(avg_scores[i][1]) <= ExactBase(i) + 1
        /\ miner_alloc_total - SumExactBase(Len(avg_scores)) <= Len(avg_scores)
        /\ miner_alloc_total - SumExactBase(Len(avg_scores)) >= 0

C6_Witness ==
    /\ AfterMiners
    /\ MinerPoolOpen
    /\ miner_alloc_total - SumExactBase(Len(avg_scores)) = 2
    /\ \E i \in 1 .. Len(avg_scores) :
          /\ ExactBase(i) > 0
          /\ MinerAmount(avg_scores[i][1]) = ExactBase(i) + 1

IsScenario ==
    /\ total = 7200
    /\ avg_scores = ScenarioScores
    /\ validators = ScenarioValidators

\* C7: 7200 tokens with scores P1:50, P2:150 and validators V1, V2, V3 give
\* 1440 to each beneficiary, 630 to P1, 1890 to P2, 600 to each validator
\* and leftover 0.
C7_Scenario ==
    (Returned /\ IsScenario) =>
        /\ payouts = <<<<BeneficiaryA, 1440>>, <<BeneficiaryB, 1440>>,
                       <<"P1", 630>>, <<"P2", 1890>>,
                       <<"V1", 600>>, <<"V2", 600>>, <<"V3", 600>>>>
        /\ leftover = 0

C7_Witness == Returned /\ IsScenario /\ Len(payouts) = 7

(***************************************************************************)
(* The VM allocation registry of backend/server.py.                        *)
(*                                                                         *)
(* A record is a JSON object; a key that is absent (or holds None) is      *)
(* NULL, an absent timestamp is NoTime.  The file holds a sequence of      *)
(* items, each a JSON object (list = FALSE, one record) or a nested list   *)
(* of objects (list = TRUE).                                               *)
(***************************************************************************)
Miners == {"m1", "m2"}
InstanceNames == {"default-vm"}

\* the ids the compute provider gives to the instances it creates, in order
VmIds == <<"vm1", "vm2", "vm3", "vm4", "vm5", "vm6", "vm7", "vm8">>
UpperIds == <<"VM1", "VM2", "VM3", "VM4", "VM5", "VM6", "VM7", "VM8">>

\* str(x).strip().lower() on the ids of the model
Lower(x) ==
    IF \E k \in 1 .. Len(UpperIds) : UpperIds[k] = x
    THEN VmIds[CHOOSE k \in 1 .. Len(UpperIds) : UpperIds[k] = x]
    ELSE x

\* a JSON object none of whose keys the registry knows, but for "id"
RawRecord(idv) ==
    [vmId |-> NULL, id |-> idv, vmName |-> NULL, status |-> NULL,
     walletAddress |-> NULL, createdAt |-> NoTime, minerAddress |-> NULL,
     instanceName |-> NULL, assignedAt |-> NoTime, releasedAt |-> NoTime]

\* lines 546-552: the record of a newly created VM
NewRecord(v, wallet, t) ==
    [vmId |-> v, id |-> NULL, vmName |-> "default-vm", status |-> "inactive",
     walletAddress |-> wallet, createdAt |-> t, minerAddress |-> NULL,
     instanceName |-> NULL, assignedAt |-> NoTime, releasedAt |-> NoTime]

RECURSIVE Flatten(_)
\* lines 468-475: flatten nested lists, keep the objects
Flatten(f) == IF f = <<>> THEN <<>> ELSE f[1].recs \o Flatten(Tail(f))

\* lines 458-481: load_deployments; a missing status becomes "inactive"
load_deployments(f) ==
    LET flat == Flatten(f)
    IN  [i \in 1 .. Len(flat) |->
            IF flat[i].status = NULL
            THEN [flat[i] EXCEPT !.status = "inactive"]
            ELSE flat[i]]

\* lines 484-486: save_deployments writes the list of records
save_deployments(items) ==
    [i \in 1 .. Len(items) |-> [list |-> FALSE, recs |-> <<items[i]>>]]

(***************************************************************************)
(* The compute provider.  A deploy response is a JSON value: a list of VM  *)
(* objects (isList) or an object with an "id" of its own (topId) and VM    *)
(* objects under "vms" and "instances".                                    *)
(***************************************************************************)
Response(isList, items, topId, vms, instances) ==
    [isList |-> isList, items |-> items, topId |-> topId, vms |-> vms,
     instances |-> instances]

\* the responses to a request for one instance, v the id of the new VM
Responses(v) ==
    [empty  |-> Response(FALSE, <<>>, NULL, <<>>, <<>>),
     vms    |-> Response(FALSE, <<>>, NULL, <<v>>, <<>>),
     single |-> Response(FALSE, <<>>, v, <<>>, <<>>),
     list   |-> Response(TRUE, <<v>>, NULL, <<>>, <<>>),
     dup    |-> Response(FALSE, <<>>, NULL, <<v>>, <<v>>)]

ResponseKinds == {"empty", "vms", "single", "list", "dup"}

\* what the provider does on create: raise, or answer with a response
ProviderOutcomes == {"raise"} \cup ResponseKinds

\* lines 513-537: _extract_vms_from_deploy_result, the ids of the VMs found
\* (the keys "deployment", "items" and "data" hold no list in the model)
_extract_vms_from_deploy_result(result) ==
    IF result.isList
    THEN result.items
    ELSE result.vms \o result.instances
         \o (IF result.topId # NULL THEN <<result.topId>> ELSE <<>>)

\* fluence/vm.py lines 30-45: save_to_history appends the response to the
\* history file, which is the registry file when sameFile holds
save_to_history(f, result, same) ==
    IF ~same THEN f
    ELSE Append(f, IF result.isList
                   THEN [list |-> TRUE,
                         recs |-> [i \in 1 .. Len(result.items) |->
                                      RawRecord(result.items[i])]]
                   ELSE [list |-> FALSE, recs |-> <<RawRecord(result.topId)>>])

\* lines 540-557: record_new_vms_as_inactive; the file and the created records
record_new_vms_as_inactive(f, deploy_result, wallet, t) ==
    LET records == load_deployments(f)
        extracted == _extract_vms_from_deploy_result(deploy_result)
        created == [i \in 1 .. Len(extracted) |-> NewRecord(extracted[i], wallet, t)]
    IN  [file |-> IF created # <<>> THEN save_deployments(records \o created) ELSE f,
         created |-> created]

(***************************************************************************)
(* allocate_vm_to_miner, lines 560-618.                                    *)
(***************************************************************************)
\* the record becomes active but the participant is not written
BindNoMiner(rec, miner, name, t) ==
    [rec EXCEPT !.status = "active", !.instanceName = name, !.assignedAt = t]

\* lines 566-569: mark active and assign ownership
Bind(rec, miner, name, t) ==
    [rec EXCEPT !.status = "active", !.minerAddress = miner,
                !.instanceName = name, !.assignedAt = t]

\* the last inactive record instead of the first
ReuseIndexLast(recs) ==
    IF \E i \in 1 .. Len(recs) : recs[i].status = "inactive"
    THEN CHOOSE i \in 1 .. Len(recs) :
            /\ recs[i].status = "inactive"
            /\ \A j \in i + 1 .. Len(recs) : recs[j].status # "inactive"
    ELSE 0

\* lines 564-565: the first record with status inactive, 0 when none
ReuseIndex(recs) ==
    IF \E i \in 1 .. Len(recs) : recs[i].status = "inactive"
    THEN CHOOSE i \in 1 .. Len(recs) :
            /\ recs[i].status = "inactive"
            /\ \A j \in 1 .. i - 1 : recs[j].status # "inactive"
    ELSE 0

\* a new VM requested on every call
NeedsProviderAlways(recs) == TRUE

\* line 573: the provider is reached only when the loop returned nothing
NeedsProvider(recs) == ReuseIndex(recs) = 0

\* lines 603-610: the first record of the new VMs that is still inactive
NewIndex(deployments, new_ids) ==
    IF \E i \in 1 .. Len(deployments) :
          deployments[i].vmId \in new_ids /\ deployments[i].status = "inactive"
    THEN CHOOSE i \in 1 .. Len(deployments) :
            /\ deployments[i].vmId \in new_ids
            /\ deployments[i].status = "inactive"
            /\ \A j \in 1 .. i - 1 :
                  ~(deployments[j].vmId \in new_ids
                    /\ deployments[j].status = "inactive")
    ELSE 0

\* lines 603-616: the index of the record assigned after a deploy; line 611
\* falls back to the last record of the registry, 0 when it is empty
AssignedIndex(deployments, new_ids) ==
    IF NewIndex(deployments, new_ids) # 0 THEN NewIndex(deployments, new_ids)
    ELSE Len(deployments)

\* the registry as load_deployments sees it
Registry == load_deployments(file)

\* lines 560-571: an inactive record is reused
AllocateReuse(miner, name, provider) ==
    \E deployments \in {load_deployments(file)} :
    \E i \in {ReuseIndex(deployments)} :
        /\ ~NeedsProvider(deployments)
        /\ i # 0
        /\ file' = save_deployments(
                       [deployments EXCEPT ![i] = Bind(deployments[i], miner, name, now)])
        /\ lastCall' = Call("allocate", provider, "ok", i, 0)
        /\ UNCHANGED <<sameFile, nextVm, now>>

\* lines 573-597: deploy_vm raises, the exception leaves allocate_vm_to_miner
AllocateRaise(miner, name) ==
    LET deployments == load_deployments(file)
    IN  /\ NeedsProvider(deployments)
        /\ lastCall' = Call("allocate", "raise", "error", 0, 1)
        /\ UNCHANGED <<file, sameFile, nextVm, now>>

\* lines 573-618: deploy_vm returns a response
AllocateCreate(miner, name, kind) ==
    /\ nextVm < Len(VmIds)
    /\ \E before \in {load_deployments(file)} : NeedsProvider(before)
    /\ \E deploy_result \in {Responses(VmIds[nextVm + 1])[kind]} :
       \E rec \in {record_new_vms_as_inactive(
                       save_to_history(file, deploy_result, sameFile),
                       deploy_result, NULL, now)} :
       \E deployments \in {load_deployments(rec.file)} :
       \E a \in {AssignedIndex(deployments,
                                {rec.created[i].vmId : i \in 1 .. Len(rec.created)})} :
       \E bound \in {IF a = 0 THEN deployments
                      ELSE [deployments EXCEPT
                               ![a] = Bind(deployments[a], miner, name, now)]} :
          /\ Len(bound) <= MaxRecords
          /\ file' = save_deployments(bound)
          /\ nextVm' = IF kind = "empty" THEN nextVm ELSE nextVm + 1
          /\ lastCall' = Call("allocate", kind, "ok", a, 1)
          /\ UNCHANGED <<sameFile, now>>

\* allocate_vm_to_miner(miner_address, instance_name, manager), the provider
\* raising or answering with a response when it is asked to create
AllocateCall(miner, name, provider) ==
    \/ provider \in {"raise", "vms"} /\ AllocateReuse(miner, name, provider)
    \/ provider = "raise" /\ AllocateRaise(miner, name)
    \/ provider \in ResponseKinds /\ AllocateCreate(miner, name, provider)

Allocate ==
    \E miner \in Miners, name \in InstanceNames, provider \in ProviderOutcomes :
        AllocateCall(miner, name, provider)

(***************************************************************************)
(* docker_stop, lines 816-849: the registry update after the stop.         *)
(***************************************************************************)
\* lines 833-836: the first record whose vmId or id is the needle
MatchIndex(deployments, needle) ==
    IF \E i \in 1 .. Len(deployments) :
          Lower(deployments[i].vmId) = needle \/ Lower(deployments[i].id) = needle
    THEN CHOOSE i \in 1 .. Len(deployments) :
            /\ Lower(deployments[i].vmId) = needle \/ Lower(deployments[i].id) = needle
            /\ \A j \in 1 .. i - 1 :
                  /\ Lower(deployments[j].vmId) # needle
                  /\ Lower(deployments[j].id) # needle
    ELSE 0

\* the status and the timestamps change but the binding stays
UnbindKeepsMiner(rec, t) ==
    [rec EXCEPT !.status = "inactive", !.assignedAt = NoTime, !.releasedAt = t]

\* lines 837-841
Unbind(rec, t) ==
    [rec EXCEPT !.status = "inactive", !.minerAddress = NULL,
                !.instanceName = NULL, !.assignedAt = NoTime, !.releasedAt = t]

\* the ids a caller may pass to docker_stop
Needles == {VmIds[k] : k \in 1 .. nextVm} \cup {UpperIds[1], "ghost"}

\* docker_stop(vm_id) with exit code 0
ReleaseStopped(vm_id) ==
    \E deployments \in {load_deployments(file)} :
    \E i \in {MatchIndex(deployments, Lower(vm_id))} :
        /\ file' = IF i = 0 THEN file
                   ELSE save_deployments(
                            [deployments EXCEPT ![i] = Unbind(deployments[i], now)])
        /\ lastCall' = Call("release", NULL, "ok", i, 0)
        /\ UNCHANGED <<sameFile, nextVm, now>>

\* docker_stop(vm_id) when the remote command fails or cannot be run
ReleaseFailed(vm_id) ==
    /\ lastCall' = Call("release", NULL, "error", 0, 0)
    /\ UNCHANGED <<file, sameFile, nextVm, now>>

Release ==
    \E vm_id \in Needles : ReleaseStopped(vm_id) \/ ReleaseFailed(vm_id)

\* lines 621-633: deploy passes wallet_address to FluenceVMManager.deploy_vm,
\* which takes no such argument (fluence/vm.py line 176): the call raises
\* before the provider is reached
Deploy ==
    /\ lastCall' = Call("deploy", NULL, "error", 0, 0)
    /\ UNCHANGED <<file, sameFile, nextVm, now>>

\* the clock of _utc_now_iso advances
Tick ==
    /\ now < MaxTime
    /\ now' = now + 1
    /\ UNCHANGED <<file, sameFile, nextVm, lastCall>>

RegInit ==
    /\ file = <<>>
    /\ sameFile \in BOOLEAN
    /\ nextVm = 0
    /\ now = 0
    /\ lastCall = NoCall
    /\ ScoreIdle
    /\ AggIdle
    /\ ParseIdle
    /\ MintIdle
    /\ RaceIdle
    /\ pc = "idle"
    /\ total = 0
    /\ avg_scores = <<>>
    /\ validators = <<>>
    /\ payouts = <<>>
    /\ miner_alloc_total = 0
    /\ distributed = 0
    /\ minerPlan = <<>>
    /\ leftover = 0

RegNext ==
    \/ Allocate /\ UNCHANGED <<distVars, scoreVars, aggVars, parseVars, mintVars, raceVars>>
    \/ Release /\ UNCHANGED <<distVars, scoreVars, aggVars, parseVars, mintVars, raceVars>>
    \/ Deploy /\ UNCHANGED <<distVars, scoreVars, aggVars, parseVars, mintVars, raceVars>>
    \/ Tick /\ UNCHANGED <<distVars, scoreVars, aggVars, parseVars, mintVars, raceVars>>

RegSpec == RegInit /\ [][RegNext]_vars

(***************************************************************************)
(* Properties of allocate_vm_to_miner.                                     *)
(***************************************************************************)
HasInactive(recs) == \E i \in 1 .. Len(recs) : recs[i].status = "inactive"

\* the first inactive record in registry insertion order
FirstInactive(recs) ==
    CHOOSE i \in 1 .. Len(recs) :
        /\ recs[i].status = "inactive"
        /\ \A j \in 1 .. i - 1 : recs[j].status # "inactive"

\* C8: when the registry holds an inactive record, allocate makes the first
\* such record active, binds minerAddress, instanceName and assignedAt to
\* the request, returns that record and saves the registry so changed.
\* (Every allocate step records an "allocate" call and leaves the clock
\* alone; these two conjuncts come first so that other steps are dismissed
\* before the registry is loaded.)
C8_AllocateFirstInactive ==
    [][\A miner \in Miners, name \in InstanceNames, provider \in ProviderOutcomes :
          (/\ lastCall'.op = "allocate"
           /\ now' = now
           /\ HasInactive(Registry)
           /\ AllocateCall(miner, name, provider)) =>
              LET i == FirstInactive(Registry)
              IN  /\ lastCall'.outcome = "ok"
                  /\ lastCall'.returned = i
                  /\ Registry' =
                        [Registry EXCEPT ![i] =
                            [@ EXCEPT !.status = "active",
                                      !.minerAddress = miner,
                                      !.instanceName = name,
                                      !.assignedAt = now]]
                  /\ file' = save_deployments(Registry')]_vars

C8_Witness ==
    /\ lastCall.op = "allocate"
    /\ lastCall.deployCalls = 0
    /\ lastCall.returned = 1
    /\ Len(Registry) = 2
    /\ Registry[1].status = "active"
    /\ Registry[1].minerAddress \in Miners
    /\ Registry[1].releasedAt # NoTime
    /\ Registry[2].status = "inactive"

\* C9: when the registry holds an inactive record, allocate succeeds
\* without calling the compute provider, also when the provider would
\* raise on create.
C9_ReuseNeverCallsProvider ==
    [][(lastCall'.op = "allocate" /\ now' = now /\ HasInactive(Registry) /\ Allocate) =>
          /\ lastCall'.outcome = "ok"
          /\ lastCall'.returned # 0
          /\ lastCall'.deployCalls = 0
          /\ nextVm' = nextVm]_vars

C9_Witness ==
    /\ lastCall.op = "allocate"
    /\ lastCall.provider = "raise"
    /\ lastCall.outcome = "ok"
    /\ lastCall.deployCalls = 0
    /\ lastCall.returned # 0
    /\ Registry[lastCall.returned].status = "active"

\* C10: when no record is inactive and the provider raises or answers with
\* no new instance, allocate fails with an error and leaves the registry
\* unchanged.
C10_ProviderFailureIsAnError ==
    [][(Allocate /\ ~HasInactive(Registry)
            /\ lastCall'.provider \in {"raise", "empty"}) =>
          /\ lastCall'.outcome = "error"
          /\ Registry' = Registry]_vars

(***************************************************************************)
(* Properties of the registry update of docker_stop.                       *)
(***************************************************************************)
\* the record docker_stop(vm_id) matches, 0 when there is none
Matched(vm_id) == MatchIndex(Registry, Lower(vm_id))

C12_ReleaseIdempotent ==
    [][\A vm_id \in Needles :
          (/\ ReleaseStopped(vm_id)
           /\ \/ Matched(vm_id) = 0
              \/ Registry[Matched(vm_id)].status = "inactive") =>
              /\ file' = file
              /\ Registry' = Registry]_vars

\* C13: in every registry reached from the empty one by deploy, allocate
\* and release, an active record carries a participant id and an inactive
\* record that was released carries none.
C13_ActiveHasParticipant ==
    \A i \in 1 .. Len(Registry) :
        /\ Registry[i].status = "active" =>
              /\ Registry[i].minerAddress # NULL
              /\ Registry[i].minerAddress \in Miners
        /\ (Registry[i].status = "inactive" /\ Registry[i].releasedAt # NoTime) =>
              Registry[i].minerAddress = NULL

C13_Witness ==
    /\ Len(Registry) = 2
    /\ Registry[1].status = "inactive"
    /\ Registry[1].releasedAt # NoTime
    /\ Registry[1].minerAddress = NULL
    /\ Registry[2].status = "active"
    /\ Registry[2].minerAddress = "m2"
    /\ lastCall.op = "release"

\* C14: no two records of the persisted registry carry the same vmId, the
\* provider handing out a fresh id on every create.
C14_UniqueVmId ==
    \A i, j \in 1 .. Len(Registry) :
        (i # j /\ Registry[i].vmId # NULL) => Registry[i].vmId # Registry[j].vmId

(***************************************************************************)
(* _openai_score_answer, server.py lines 185-365.                          *)
(*                                                                         *)
(* A string is the sequence of its characters, each a one-character        *)
(* string; "U+2212" stands for the Unicode minus sign.                     *)
(***************************************************************************)
Digits == <<"0", "1", "2", "3", "4", "5", "6", "7", "8", "9">>

IsDigit(c) == \E d \in 1 .. Len(Digits) : Digits[d] = c

\* int() of a one-digit string
DigitVal(c) == (CHOOSE d \in 1 .. Len(Digits) : Digits[d] = c) - 1

UpperLetters == <<"A", "B", "I", "T">>
LowerLetters == <<"a", "b", "i", "t">>

\* \w of the regular expressions: letters and digits among the characters
\* of the model
IsWord(c) ==
    \/ IsDigit(c)
    \/ c \in {"a", "b", "e", "h", "i", "k", "n", "r", "s", "t", "w"}
    \/ c \in Range(UpperLetters)

\* lines 321-323 and 193-194: normalize_minus
normalize_minus(s) ==
    [i \in 1 .. Len(s) |-> IF s[i] = "U+2212" THEN "-" ELSE s[i]]

RECURSIVE DigitsEnd(_, _)
\* the last position of the run of digits that starts at position i
DigitsEnd(s, i) ==
    IF i < Len(s) /\ IsDigit(s[i + 1]) THEN DigitsEnd(s, i + 1) ELSE i

RECURSIVE FindInts(_, _)
\* re.findall(r"-?\d+", s) from position i on
FindInts(s, i) ==
    IF i > Len(s) THEN <<>>
    ELSE IF IsDigit(s[i])
         THEN <<SubSeq(s, i, DigitsEnd(s, i))>> \o FindInts(s, DigitsEnd(s, i) + 1)
    ELSE IF s[i] = "-" /\ i < Len(s) /\ IsDigit(s[i + 1])
         THEN <<SubSeq(s, i, DigitsEnd(s, i + 1))>>
              \o FindInts(s, DigitsEnd(s, i + 1) + 1)
    ELSE FindInts(s, i + 1)

\* lines 325-327 and 195-197: extract_ints, the integer tokens as strings
extract_ints(s) == FindInts(normalize_minus(s), 1)

\* line 336 and line 209: the truth tokens found among the candidate's
MatchedCount(t_nums, c_nums) ==
    Cardinality({i \in 1 .. Len(t_nums) : t_nums[i] \in Range(c_nums)})

\* str.lower()
lower(s) ==
    [i \in 1 .. Len(s) |->
        IF \E k \in 1 .. Len(UpperLetters) : UpperLetters[k] = s[i]
        THEN LowerLetters[CHOOSE k \in 1 .. Len(UpperLetters) : UpperLetters[k] = s[i]]
        ELSE s[i]]

\* a in b, on strings
IsSubstring(a, b) ==
    \E i \in 1 .. (Len(b) - Len(a) + 1) : SubSeq(b, i, i + Len(a) - 1) = a

\* set(s.split()): the maximal runs of characters other than the blank
SplitSet(s) ==
    {SubSeq(s, p[1], p[2]) :
        p \in {q \in (1 .. Len(s)) \X (1 .. Len(s)) :
                  /\ q[1] <= q[2]
                  /\ \A k \in q[1] .. q[2] : s[k] # " "
                  /\ (q[1] = 1 \/ s[q[1] - 1] = " ")
                  /\ (q[2] = Len(s) \/ s[q[2] + 1] = " ")}}

\* lines 355-362 and 223-230: the lexical overlap; int(100 * overlap / total)
\* is the floor of the exact quotient for the sizes of the model
LexicalScore(t, c) ==
    LET t_l == lower(t)
        c_l == lower(c)
        overlap == Cardinality(SplitSet(t_l) \cap SplitSet(c_l))
        n == IF Cardinality(SplitSet(t_l)) = 0 THEN 1 ELSE Cardinality(SplitSet(t_l))
    IN  IF t_l # <<>> /\ (t_l = c_l \/ IsSubstring(t_l, c_l) \/ IsSubstring(c_l, t_l))
        THEN 95
        ELSE Max(0, IF (100 * overlap) \div n < 100 THEN (100 * overlap) \div n ELSE 100)

\* the branch on ratio never taken: every partial match scores 25
NumericScoreFlat(matched, n) ==
    IF matched = n THEN 100
    ELSE IF matched > 0 THEN 25
    ELSE 0

\* lines 210-221 and 338-350: ratio = matched / total against 0.66 and 0.33;
\* the double quotient is on the same side of 0.66 and of 0.33 as the exact
\* one for the sizes of the model
NumericScore(matched, n) ==
    IF matched = n /\ n > 0 THEN 100
    ELSE IF 100 * matched >= 66 * n THEN 75
    ELSE IF 100 * matched >= 33 * n THEN 40
    ELSE IF matched > 0 THEN 25
    ELSE 0

\* lines 192-230: _numeric_heuristic
_numeric_heuristic(t, c) ==
    LET t_nums == extract_ints(t)
        c_nums == extract_ints(c)
    IN  IF t_nums # <<>>
        THEN NumericScore(MatchedCount(t_nums, c_nums), Len(t_nums))
        ELSE LexicalScore(t, c)

\* the inline copy reading the integers without normalize_minus
InlineFallbackRawMinus(t, c) ==
    LET truth_nums == FindInts(t, 1)
        cand_nums == FindInts(c, 1)
    IN  IF truth_nums # <<>>
        THEN NumericScore(MatchedCount(truth_nums, cand_nums), Len(truth_nums))
        ELSE LexicalScore(t, c)

\* lines 319-362: the fallback written out after the request
InlineFallback(t, c) ==
    LET truth_nums == extract_ints(t)
        cand_nums == extract_ints(c)
    IN  IF truth_nums # <<>>
        THEN IF Len(truth_nums) > 0
             THEN NumericScore(MatchedCount(truth_nums, cand_nums), Len(truth_nums))
             ELSE 0
        ELSE LexicalScore(t, c)

\* line 363 without the clamp
ClampNone(v) == v

\* line 363: max(0, min(100, int(score_val)))
Clamp100(v) == IF v < 0 THEN 0 ELSE IF v > 100 THEN 100 ELSE v

(***************************************************************************)
(* The answer of the scoring oracle.  kind is "nokey" (OPENAI_API_KEY not  *)
(* set), "raise" (requests.post raises), "http_error" (resp.ok is false),  *)
(* "bad_body" (resp.json() raises), "nonstring" (the message content is    *)
(* not a string) or "content".  A content is a string: when json is "num"  *)
(* it is a JSON object whose "score" is the number tenths / 10, when "nan" *)
(* a JSON object whose "score" is NaN, otherwise text holds its characters.*)
(***************************************************************************)
Oracle(kind, js, tenths, text) ==
    [kind |-> kind, json |-> js, tenths |-> tenths, text |-> text]

NoOracle == Oracle("none", "none", 0, <<>>)

\* int(raw) on the number tenths / 10: truncation toward zero
IntOfTenths(t) == IF t >= 0 THEN t \div 10 ELSE 0 - ((0 - t) \div 10)

\* \b after position j, a word character
BoundaryAfter(s, j) == j = Len(s) \/ ~IsWord(s[j + 1])

\* line 303: the match of \b(100|[1-9]?\d)\b that starts at position i
MatchAt(s, i) ==
    IF ~IsDigit(s[i]) \/ (i > 1 /\ IsWord(s[i - 1])) THEN NoScore
    ELSE IF i + 2 <= Len(s) /\ SubSeq(s, i, i + 2) = <<"1", "0", "0">>
            /\ BoundaryAfter(s, i + 2)
         THEN 100
    ELSE IF s[i] # "0" /\ i + 1 <= Len(s) /\ IsDigit(s[i + 1])
            /\ BoundaryAfter(s, i + 1)
         THEN 10 * DigitVal(s[i]) + DigitVal(s[i + 1])
    ELSE IF BoundaryAfter(s, i) THEN DigitVal(s[i])
    ELSE NoScore

RECURSIVE SearchFrom(_, _)
\* lines 303-308: re.search, the first match from the left
SearchFrom(s, i) ==
    IF i > Len(s) THEN NoScore
    ELSE IF MatchAt(s, i) # NoScore THEN MatchAt(s, i)
    ELSE SearchFrom(s, i + 1)

\* lines 292-313: score_val after the content has been read
ParseContent(o) ==
    IF o.json = "num" THEN IntOfTenths(o.tenths) ELSE SearchFrom(o.text, 1)

\* lines 277-318: score_val after the response has been read
ParseResponse(o) ==
    IF o.kind = "content" THEN ParseContent(o) ELSE NoScore

(***************************************************************************)
(* Inputs of _openai_score_answer.                                         *)
(***************************************************************************)
\* all sequences over S of length at most n
SeqsUpTo(S, n) == UNION {[1 .. k -> S] : k \in 0 .. n}

RECURSIVE JoinWords(_)
\* " ".join(ws)
JoinWords(ws) ==
    IF ws = <<>> THEN <<>>
    ELSE IF Len(ws) = 1 THEN ws[1]
    ELSE ws[1] \o <<" ">> \o JoinWords(Tail(ws))

TruthWords ==
    {<<"1">>, <<"U+2212", "2">>, <<"1", "-", "2">>, <<"3", "a", "4">>, <<"A", "b">>}

CandWords == {<<"1">>, <<"1", "-", "2">>, <<"3", "a", "4">>, <<"a", "b">>}

Truths == {JoinWords(ws) : ws \in SeqsUpTo(TruthWords, MaxTruthWords)}

Candidates == {JoinWords(ws) : ws \in SeqsUpTo(CandWords, MaxCandWords)}

\* "The answer is -7" and "I think it's -7"
ExampleTruth ==
    <<"T", "h", "e", " ", "a", "n", "s", "w", "e", "r", " ", "i", "s", " ", "-", "7">>

ExampleCandidate ==
    <<"I", " ", "t", "h", "i", "n", "k", " ", "i", "t", "'", "s", " ", "-", "7">>

ContentChars == {"1", "0", "a", "-"}

\* texts the oracle may answer with; "150" and "\"85\"" are among them
ContentTexts ==
    SeqsUpTo(ContentChars, MaxContent)
        \cup {<<"1", "0", "0">>, <<"1", "5", "0">>, <<"\"", "8", "5", "\"">>}

JsonTenths == {0 - 50, 0 - 5, 0, 425, 999, 1500}

\* the responses requests.post may return
Answers ==
    {Oracle("http_error", "none", 0, <<>>), Oracle("bad_body", "none", 0, <<>>),
     Oracle("nonstring", "none", 0, <<>>),
     Oracle("content", "nan", 0, <<"{", "N", "a", "N", "}">>)}
        \cup {Oracle("content", "num", t, <<>>) : t \in JsonTenths}
        \cup {Oracle("content", "none", 0, x) : x \in ContentTexts}

DistIdle ==
    /\ pc = "idle"
    /\ total = 0
    /\ avg_scores = <<>>
    /\ validators = <<>>
    /\ payouts = <<>>
    /\ miner_alloc_total = 0
    /\ distributed = 0
    /\ minerPlan = <<>>
    /\ leftover = 0

RegIdle ==
    /\ file = <<>>
    /\ sameFile = FALSE
    /\ nextVm = 0
    /\ now = 0
    /\ lastCall = NoCall

ScoreInit ==
    /\ spc = "start"
    /\ \/ truth \in Truths /\ candidate \in Candidates
       \/ truth = ExampleTruth /\ candidate = ExampleCandidate
    /\ oracle = NoOracle
    /\ score_val = NoScore
    /\ scoreOut = NoScore
    /\ DistIdle
    /\ RegIdle
    /\ AggIdle
    /\ ParseIdle
    /\ MintIdle
    /\ RaceIdle

\* lines 232-233: no API key
NoKey ==
    /\ spc = "start"
    /\ oracle' = Oracle("nokey", "none", 0, <<>>)
    /\ scoreOut' = _numeric_heuristic(truth, candidate)
    /\ spc' = "returned"
    /\ UNCHANGED <<truth, candidate, score_val>>

\* lines 261-276 and 364-365: requests.post raises
PostRaises ==
    /\ spc = "start"
    /\ oracle' = Oracle("raise", "none", 0, <<>>)
    /\ scoreOut' = 0
    /\ spc' = "returned"
    /\ UNCHANGED <<truth, candidate, score_val>>

\* lines 261-276: requests.post returns a response
PostAnswers ==
    /\ spc = "start"
    /\ oracle' \in Answers
    /\ spc' = "answered"
    /\ UNCHANGED <<truth, candidate, score_val, scoreOut>>

\* lines 279 and 364-365: resp.json() raises
BodyRaises ==
    /\ spc = "answered"
    /\ oracle.kind = "bad_body"
    /\ scoreOut' = 0
    /\ spc' = "returned"
    /\ UNCHANGED <<truth, candidate, oracle, score_val>>

\* lines 277-318
ReadResponse ==
    /\ spc = "answered"
    /\ oracle.kind # "bad_body"
    /\ score_val' = ParseResponse(oracle)
    /\ spc' = "parsed"
    /\ UNCHANGED <<truth, candidate, oracle, scoreOut>>

\* lines 319-362
Fallback ==
    /\ spc = "parsed"
    /\ score_val = NoScore
    /\ score_val' = InlineFallback(truth, candidate)
    /\ spc' = "scored"
    /\ UNCHANGED <<truth, candidate, oracle, scoreOut>>

\* line 363
ReturnScore ==
    /\ \/ spc = "parsed" /\ score_val # NoScore
       \/ spc = "scored"
    /\ scoreOut' = Clamp100(score_val)
    /\ spc' = "returned"
    /\ UNCHANGED <<truth, candidate, oracle, score_val>>

ScoreNext ==
    \/ NoKey /\ UNCHANGED <<distVars, regVars, aggVars, parseVars, mintVars, raceVars>>
    \/ PostRaises /\ UNCHANGED <<distVars, regVars, aggVars, parseVars, mintVars, raceVars>>
    \/ PostAnswers /\ UNCHANGED <<distVars, regVars, aggVars, parseVars, mintVars, raceVars>>
    \/ BodyRaises /\ UNCHANGED <<distVars, regVars, aggVars, parseVars, mintVars, raceVars>>
    \/ ReadResponse /\ UNCHANGED <<distVars, regVars, aggVars, parseVars, mintVars, raceVars>>
    \/ Fallback /\ UNCHANGED <<distVars, regVars, aggVars, parseVars, mintVars, raceVars>>
    \/ ReturnScore /\ UNCHANGED <<distVars, regVars, aggVars, parseVars, mintVars, raceVars>>

ScoreSpec == ScoreInit /\ [][ScoreNext]_vars

(***************************************************************************)
(* Properties of _openai_score_answer.                                     *)
(***************************************************************************)
\* C15: whatever the question, reference, candidate and oracle outcome, the
\* value returned is an integer between 0 and 100.
C15_ScoreInRange ==
    spc = "returned" => (scoreOut \in 0 .. 100)

C15_Witness ==
    /\ spc = "returned"
    /\ oracle.kind = "content"
    /\ oracle.json = "num"
    /\ oracle.tenths = 1500
    /\ scoreOut = 100

\* the call could not produce a score: the request failed, or the response
\* was an HTTP error or held nothing that parses
OracleUnavailable ==
    \/ oracle.kind \in {"raise", "http_error", "nonstring"}
    \/ oracle.kind = "content" /\ ParseContent(oracle) = NoScore

\* C16: when the request itself fails, as when the response is an HTTP
\* error or cannot be parsed, the value returned is the score of the
\* deterministic fallback for (reference, candidate).
C16_FailureUsesFallback ==
    (spc = "returned" /\ OracleUnavailable) =>
        scoreOut = _numeric_heuristic(truth, candidate)

\* the number of integer tokens of the reference r that occur among the
\* integer tokens c of the candidate
RefMatched(r, c) ==
    Cardinality({i \in 1 .. Len(r) : \E j \in 1 .. Len(c) : c[j] = r[i]})

\* the fallback scorer gave the value returned
ByFallback ==
    /\ spc = "returned"
    /\ \/ oracle.kind \in {"nokey", "http_error", "nonstring"}
       \/ oracle.kind = "content" /\ ParseContent(oracle) = NoScore

\* C17: with integers in the reference the fallback scores 100 when all of
\* them occur in the candidate, else 75, 40, 25 or 0 as the matched
\* fraction is at least 66%, at least 33%, above zero, or zero.
C17_NumericFallback ==
    ByFallback =>
        LET r == extract_ints(truth)
            m == RefMatched(r, extract_ints(candidate))
        IN  Len(r) > 0 =>
                scoreOut = IF m = Len(r) THEN 100
                           ELSE IF 100 * m >= 66 * Len(r) THEN 75
                           ELSE IF 100 * m >= 33 * Len(r) THEN 40
                           ELSE IF m >= 1 THEN 25
                           ELSE 0

C17_Witness ==
    /\ spc = "returned"
    /\ oracle.kind = "nokey"
    /\ truth = ExampleTruth
    /\ candidate = ExampleCandidate
    /\ extract_ints(truth) = <<(<<"-", "7">>)>>
    /\ scoreOut = 100

(***************************************************************************)
(* _aggregate_scores, server.py lines 368-379.  A pair is a JSON object    *)
(* with the keys walletId (NULL: absent or None) and score.                *)
(***************************************************************************)
PairIds == {NULL, "", "w1"}

PairScores == {0, 1, 2, 3, 100}

Pair(w, sc) == [walletId |-> w, score |-> sc]

\* the key is used as it is, a missing id is a row of its own
WalletKeyRaw(p) == p.walletId

\* line 372: str(p.get("walletId") or "unknown")
WalletKey(p) == IF p.walletId = NULL \/ p.walletId = "" THEN "unknown" ELSE p.walletId

\* position of wallet w in the dict by_wallet, 0 when it is no key
KeyIndex(bw, w) ==
    IF \E i \in 1 .. Len(bw) : bw[i][1] = w
    THEN CHOOSE i \in 1 .. Len(bw) : bw[i][1] = w
    ELSE 0

\* line 374: by_wallet.setdefault(wallet, []).append(score)
SetDefaultAppend(bw, w, sc) ==
    IF KeyIndex(bw, w) = 0 THEN Append(bw, <<w, <<sc>>>>)
    ELSE [bw EXCEPT ![KeyIndex(bw, w)] = <<w, Append(@[2], sc)>>]

RECURSIVE SumSeq(_)
\* sum(scores)
SumSeq(xs) == IF xs = <<>> THEN 0 ELSE xs[1] + SumSeq(Tail(xs))

\* round() to the nearest integer, a tie going away from zero, of s / n
RoundHalfAway(s, n) == (2 * s + n) \div (2 * n)

\* int(round(s / n)) for s >= 0 and n >= 1: Python rounds a tie to the even
\* neighbour; s / n is exact as a double whenever it is a tie
RoundHalfEven(s, n) ==
    LET q == s \div n
        r == s % n
    IN  IF 2 * r < n THEN q
        ELSE IF 2 * r > n THEN q + 1
        ELSE IF q % 2 = 0 THEN q
        ELSE q + 1

\* line 377: int(round(sum(scores) / max(1, len(scores))))
Average(scores) == RoundHalfEven(SumSeq(scores), Max(1, Len(scores)))

\* the number of pairs the loop of lines 371-374 has consumed
Grouped(bw) == SumSeq([i \in 1 .. Len(bw) |-> Len(bw[i][2])])

RECURSIVE GroupAll(_, _)
\* lines 370-374 on the pairs ps, from the dict bw
GroupAll(ps, bw) ==
    IF ps = <<>> THEN bw
    ELSE GroupAll(Tail(ps), SetDefaultAppend(bw, WalletKey(ps[1]), ps[1].score))

\* lines 375-379: one row per key, in dict order
Rows(bw) == [i \in 1 .. Len(bw) |-> Pair(bw[i][1], Average(bw[i][2]))]

\* _aggregate_scores(ps)
_aggregate_scores(ps) == Rows(GroupAll(ps, <<>>))

AggInit ==
    /\ apc = "group"
    /\ pairs \in SeqsUpTo({Pair(w, sc) : w \in PairIds, sc \in PairScores}, MaxPairs)
    /\ by_wallet = <<>>
    /\ out = <<>>
    /\ DistIdle
    /\ RegIdle
    /\ ScoreIdle
    /\ ParseIdle
    /\ MintIdle
    /\ RaceIdle

\* lines 371-374, one iteration
GroupPair ==
    /\ apc = "group"
    /\ Grouped(by_wallet) < Len(pairs)
    /\ LET p == pairs[Grouped(by_wallet) + 1]
       IN  by_wallet' = SetDefaultAppend(by_wallet, WalletKey(p), p.score)
    /\ UNCHANGED <<apc, pairs, out>>

\* line 375
GroupDone ==
    /\ apc = "group"
    /\ Grouped(by_wallet) = Len(pairs)
    /\ apc' = "average"
    /\ UNCHANGED <<pairs, by_wallet, out>>

\* lines 376-378, one iteration
AverageWallet ==
    /\ apc = "average"
    /\ Len(out) < Len(by_wallet)
    /\ LET e == by_wallet[Len(out) + 1]
       IN  out' = Append(out, Pair(e[1], Average(e[2])))
    /\ UNCHANGED <<apc, pairs, by_wallet>>

\* line 379
ReturnRows ==
    /\ apc = "average"
    /\ Len(out) = Len(by_wallet)
    /\ apc' = "returned"
    /\ UNCHANGED <<pairs, by_wallet, out>>

AggNext ==
    \/ GroupPair /\ UNCHANGED <<distVars, regVars, scoreVars, parseVars, mintVars, raceVars>>
    \/ GroupDone /\ UNCHANGED <<distVars, regVars, scoreVars, parseVars, mintVars, raceVars>>
    \/ AverageWallet /\ UNCHANGED <<distVars, regVars, scoreVars, parseVars, mintVars, raceVars>>
    \/ ReturnRows /\ UNCHANGED <<distVars, regVars, scoreVars, parseVars, mintVars, raceVars>>

AggSpec == AggInit /\ [][AggNext]_vars

(***************************************************************************)
(* Properties of _aggregate_scores.                                        *)
(***************************************************************************)
\* the participant a pair belongs to
ParticipantOf(p) ==
    IF p.walletId = NULL \/ p.walletId = "" THEN "unknown" ELSE p.walletId

\* the positions of the pairs of participant w
PairsOf(w) == {i \in 1 .. Len(pairs) : ParticipantOf(pairs[i]) = w}

RECURSIVE SumScoresOf(_)
SumScoresOf(I) ==
    IF I = {} THEN 0
    ELSE LET i == CHOOSE k \in I : TRUE IN pairs[i].score + SumScoresOf(I \ {i})

\* C18: each row holds the mean of the participant's scores rounded to the
\* nearest integer, a mean of k + 1/2 rounded away from zero.
C18_RoundsHalfAway ==
    apc = "returned" =>
        \A i \in 1 .. Len(out) :
            out[i].score =
                RoundHalfAway(SumScoresOf(PairsOf(out[i].walletId)),
                              Cardinality(PairsOf(out[i].walletId)))

\* the orders in which the pairs may be given
PairOrders == {f \in [1 .. Len(pairs) -> 1 .. Len(pairs)] : IsInjective(f)}

\* C19: one row per distinct participant, a missing or empty id counting as
\* "unknown"; a row depends only on the scores of its participant, whatever
\* the order of the pairs, and lies in 0 .. 100 when the scores do.
C19_OneRowPerParticipant ==
    apc = "returned" =>
        /\ {out[i].walletId : i \in 1 .. Len(out)} =
              {ParticipantOf(pairs[k]) : k \in 1 .. Len(pairs)}
        /\ \A i, j \in 1 .. Len(out) : out[i].walletId = out[j].walletId => i = j
        /\ \A f \in PairOrders :
              Range(_aggregate_scores([k \in 1 .. Len(pairs) |-> pairs[f[k]]])) = Range(out)
        /\ \A i \in 1 .. Len(out) : out[i].score \in 0 .. 100

C19_Witness ==
    /\ apc = "returned"
    /\ pairs = <<Pair("w1", 100), Pair(NULL, 3), Pair("", 1)>>
    /\ out = <<Pair("w1", 100), Pair("unknown", 2)>>

(***************************************************************************)
(* _parse_messages_to_pairs, server.py lines 100-182.                      *)
(*                                                                         *)
(* A JSON object is modelled by the keys the extractors read: walletId,    *)
(* question, truth, answer, message (NULL: absent) and vms (hasVms: the    *)
(* key holds a list).  A topic message has a "message" string, raw, which  *)
(* is "json" (json.loads gives the object obj), "wrapped" (a JSON object   *)
(* inside other text), "literal" (a Python dict literal), "nondict" (JSON, *)
(* but a list or a number), "garbage" (nothing decodes it) or "absent" (no *)
(* non-blank string); top is the message itself as an object, keyed when   *)
(* it holds one of the keys of line 136.                                   *)
(***************************************************************************)
Obj(w, q, t, a, m, hasVms, vms) ==
    [keyed |-> TRUE, walletId |-> w, question |-> q, truth |-> t, answer |-> a,
     message |-> m, hasVms |-> hasVms, vms |-> vms]

\* a value that is no dict
NoObj ==
    [keyed |-> FALSE, walletId |-> NULL, question |-> NULL, truth |-> NULL,
     answer |-> NULL, message |-> NULL, hasVms |-> FALSE, vms |-> <<>>]

Vm(w, a) == [walletId |-> w, answer |-> a]

Message(raw, obj, top) == [raw |-> raw, obj |-> obj, top |-> top]

\* lines 112-137: the object the message decodes to, NoObj when there is none
Decode(msg) ==
    IF msg.raw \in {"json", "wrapped", "literal"} THEN msg.obj
    ELSE IF msg.raw = "nondict" THEN NoObj
    ELSE msg.top

\* lines 138-147: the message is skipped
Skipped(msg) == ~Decode(msg).keyed

\* x or y
OrElse(x, y) == IF x # NULL /\ x # "" THEN x ELSE y

\* lines 62-67: _extract_question ("message" is the last key tried)
_extract_question(obj) == OrElse(obj.question, obj.message)

\* lines 70-75: _extract_truth
_extract_truth(obj) == obj.truth

\* lines 78-97: _extract_candidate ("message" is the last key tried)
_extract_candidate(obj) == OrElse(obj.answer, obj.message)

\* lines 41-59: _extract_wallet_id
_extract_wallet_id(obj) == obj.walletId

\* the pair of lines 163 and 179
ParsedPair(w, q, t, c) ==
    [walletId |-> w, question |-> OrElse(q, ""), truth |-> OrElse(t, ""),
     candidate |-> c]

\* the loop state: pairs, last_truth, last_question
Loop(ps, lt, lq) == [pairs |-> ps, last_truth |-> lt, last_question |-> lq]

\* a skipped message wipes the rolling question
AfterSkipForgets(st) == Loop(st.pairs, st.last_truth, NULL)

\* line 147: continue, nothing is touched
AfterSkip(st) == st

RECURSIVE VmPairs(_, _, _, _)
\* lines 158-163: the pairs of the entries of vms
VmPairs(vms, parsed, q, t) ==
    IF vms = <<>> THEN <<>>
    ELSE LET wallet == OrElse(vms[1].walletId, _extract_wallet_id(parsed))
             cand == OrElse(vms[1].answer, _extract_candidate(parsed))
         IN  (IF wallet # NULL /\ cand # NULL
              THEN <<ParsedPair(wallet, q, t, cand)>> ELSE <<>>)
             \o VmPairs(Tail(vms), parsed, q, t)

\* lines 150-165: a message that carries a list of VM answers
AfterMulti(st, parsed) ==
    LET q == OrElse(_extract_question(parsed), st.last_question)
        t == OrElse(_extract_truth(parsed), st.last_truth)
    IN  Loop(st.pairs \o VmPairs(parsed.vms, parsed, q, t), t, q)

\* the rolling context is updated only when the message gives a pair
AfterSingleKeepsContext(st, parsed) ==
    LET wallet == _extract_wallet_id(parsed)
        q == OrElse(_extract_question(parsed), st.last_question)
        t == OrElse(_extract_truth(parsed), st.last_truth)
        cand == _extract_candidate(parsed)
    IN  IF wallet # NULL /\ cand # NULL
        THEN Loop(Append(st.pairs, ParsedPair(wallet, q, t, cand)), t, q)
        ELSE st

\* lines 167-180: a single-answer message
AfterSingle(st, parsed) ==
    LET wallet == _extract_wallet_id(parsed)
        q == OrElse(_extract_question(parsed), st.last_question)
        t == OrElse(_extract_truth(parsed), st.last_truth)
        cand == _extract_candidate(parsed)
    IN  Loop(IF wallet # NULL /\ cand # NULL
             THEN Append(st.pairs, ParsedPair(wallet, q, t, cand))
             ELSE st.pairs,
             t, q)

\* lines 110-180: one iteration of the loop
AfterMessage(st, msg) ==
    IF Skipped(msg) THEN AfterSkip(st)
    ELSE IF Decode(msg).hasVms THEN AfterMulti(st, Decode(msg))
    ELSE AfterSingle(st, Decode(msg))

RECURSIVE LoopOver(_, _)
LoopOver(st, msgs) ==
    IF msgs = <<>> THEN st ELSE LoopOver(AfterMessage(st, msgs[1]), Tail(msgs))

\* _parse_messages_to_pairs(msgs)
_parse_messages_to_pairs(msgs) == LoopOver(Loop(<<>>, NULL, NULL), msgs).pairs

\* the objects topic messages carry
FullAnswer == Obj("w1", "q1", "t1", "a1", NULL, FALSE, <<>>)
BareAnswer == Obj("w2", NULL, NULL, "a2", NULL, FALSE, <<>>)
ContextOnly == Obj(NULL, "q2", "t2", NULL, NULL, FALSE, <<>>)
MultiAnswer == Obj(NULL, "q3", NULL, NULL, NULL, TRUE, <<Vm("w1", "a1"), Vm("w2", NULL)>>)
\* a batch message with a wallet and a text of its own ("message" key)
BatchWithText ==
    Obj("w1", NULL, "t1", NULL, "m1", TRUE, <<Vm("w2", NULL), Vm(NULL, "a2")>>)

\* the top-level object of a message whose raw string is "zz"
TopOf(w, q) == Obj(w, q, NULL, NULL, "zz", FALSE, <<>>)

Messages ==
    {Message("json", FullAnswer, NoObj), Message("json", BareAnswer, NoObj),
     Message("json", ContextOnly, NoObj), Message("json", MultiAnswer, NoObj),
     Message("json", BatchWithText, NoObj),
     Message("wrapped", BareAnswer, NoObj), Message("literal", ContextOnly, NoObj),
     Message("garbage", NoObj, TopOf("w1", NULL)),
     Message("garbage", NoObj, NoObj), Message("absent", NoObj, NoObj),
     Message("nondict", NoObj, TopOf("w1", "q1"))}

ParseInit ==
    /\ ppc = "loop"
    /\ messages \in SeqsUpTo(Messages, MaxBatch)
    /\ msgIdx = 0
    /\ parsedPairs = <<>>
    /\ last_truth = NULL
    /\ last_question = NULL
    /\ DistIdle
    /\ RegIdle
    /\ ScoreIdle
    /\ AggIdle
    /\ MintIdle
    /\ RaceIdle

\* the loop state of the variables
Here == Loop(parsedPairs, last_truth, last_question)

\* the variables take the loop state st
Becomes(st) ==
    /\ parsedPairs' = st.pairs
    /\ last_truth' = st.last_truth
    /\ last_question' = st.last_question

\* lines 138-147
SkipMessage ==
    /\ ppc = "loop"
    /\ msgIdx < Len(messages)
    /\ Skipped(messages[msgIdx + 1])
    /\ Becomes(AfterSkip(Here))
    /\ msgIdx' = msgIdx + 1
    /\ UNCHANGED <<ppc, messages>>

\* lines 149-165
MultiMessage ==
    /\ ppc = "loop"
    /\ msgIdx < Len(messages)
    /\ ~Skipped(messages[msgIdx + 1])
    /\ Decode(messages[msgIdx + 1]).hasVms
    /\ Becomes(AfterMulti(Here, Decode(messages[msgIdx + 1])))
    /\ msgIdx' = msgIdx + 1
    /\ UNCHANGED <<ppc, messages>>

\* lines 167-180
SingleMessage ==
    /\ ppc = "loop"
    /\ msgIdx < Len(messages)
    /\ ~Skipped(messages[msgIdx + 1])
    /\ ~Decode(messages[msgIdx + 1]).hasVms
    /\ Becomes(AfterSingle(Here, Decode(messages[msgIdx + 1])))
    /\ msgIdx' = msgIdx + 1
    /\ UNCHANGED <<ppc, messages>>

\* line 182
ReturnPairs ==
    /\ ppc = "loop"
    /\ msgIdx = Len(messages)
    /\ ppc' = "returned"
    /\ UNCHANGED <<messages, msgIdx, parsedPairs, last_truth, last_question>>

\* lines 106-108: the next call starts with a list and context of its own
\* (here a batch of at most one message)
ParseAgain ==
    /\ ppc = "returned"
    /\ ppc' = "loop"
    /\ messages' \in SeqsUpTo(Messages, 1)
    /\ msgIdx' = 0
    /\ parsedPairs' = <<>>
    /\ last_truth' = NULL
    /\ last_question' = NULL

ParseNext ==
    \/ ParseAgain /\ UNCHANGED <<distVars, regVars, scoreVars, aggVars, mintVars, raceVars>>
    \/ SkipMessage /\ UNCHANGED <<distVars, regVars, scoreVars, aggVars, mintVars, raceVars>>
    \/ MultiMessage /\ UNCHANGED <<distVars, regVars, scoreVars, aggVars, mintVars, raceVars>>
    \/ SingleMessage /\ UNCHANGED <<distVars, regVars, scoreVars, aggVars, mintVars, raceVars>>
    \/ ReturnPairs /\ UNCHANGED <<distVars, regVars, scoreVars, aggVars, mintVars, raceVars>>

ParseSpec == ParseInit /\ [][ParseNext]_vars

(***************************************************************************)
(* Properties of _parse_messages_to_pairs.                                 *)
(***************************************************************************)
\* the message decodes into no keyed object
Malformed(msg) ==
    /\ msg.raw \notin {"json", "wrapped", "literal"}
    /\ msg.raw = "nondict" \/ ~msg.top.keyed

RECURSIVE WellFormedOnly(_)
\* the batch without its malformed messages
WellFormedOnly(msgs) ==
    IF msgs = <<>> THEN <<>>
    ELSE IF Malformed(msgs[1]) THEN WellFormedOnly(Tail(msgs))
    ELSE <<msgs[1]>> \o WellFormedOnly(Tail(msgs))

\* C20: every batch is parsed to the end, and the pairs returned are those
\* of the batch without the messages that decode into no keyed object.
C20_MalformedSkipped ==
    /\ ppc = "returned" =>
          parsedPairs = _parse_messages_to_pairs(WellFormedOnly(messages))
    /\ (ppc = "loop" /\ msgIdx < Len(messages)) =>
          (ENABLED SkipMessage \/ ENABLED MultiMessage \/ ENABLED SingleMessage)

C20_Witness ==
    /\ ppc = "returned"
    /\ messages = <<Message("json", FullAnswer, NoObj),
                    Message("garbage", NoObj, NoObj),
                    Message("json", BareAnswer, NoObj)>>
    /\ parsedPairs = <<ParsedPair("w1", "q1", "t1", "a1"),
                       ParsedPair("w2", "q1", "t1", "a2")>>

\* the answer has a participant id and an answer text of its own
OwnIdAndText(e) ==
    /\ e.walletId # NULL /\ e.walletId # ""
    /\ e.answer # NULL /\ e.answer # ""

RECURSIVE OwnPairs(_, _, _)
\* one pair for each listed answer that has both of its own
OwnPairs(vms, q, t) ==
    IF vms = <<>> THEN <<>>
    ELSE (IF OwnIdAndText(vms[1])
          THEN <<ParsedPair(vms[1].walletId, q, t, vms[1].answer)>> ELSE <<>>)
         \o OwnPairs(Tail(vms), q, t)

\* C21: a batch message adds one pair for each listed answer that has a
\* participant id and an answer text of its own, and none for the others,
\* whatever text the enclosing message carries; a single-answer message
\* adds a pair only when it has both itself.
C21_OwnIdAndTextOnly ==
    [][/\ MultiMessage =>
             parsedPairs' =
                parsedPairs \o OwnPairs(Decode(messages[msgIdx + 1]).vms,
                                        last_question', last_truth')
       /\ (SingleMessage /\ parsedPairs' # parsedPairs) =>
             /\ _extract_wallet_id(Decode(messages[msgIdx + 1])) # NULL
             /\ _extract_candidate(Decode(messages[msgIdx + 1])) # NULL]_vars

(***************************************************************************)
(* main of scripts/mint_tao_daily.py, lines 207-312: one run after the     *)
(* other over the same deployment file.  Timestamps are whole hours; a     *)
(* lastRuns entry that datetime.fromisoformat rejects is BadStamp.  The    *)
(* token API answers each request with an acknowledgement or a failure,    *)
(* or the request raises; an exception that leaves main ends the process   *)
(* with exit code 1.                                                       *)
(***************************************************************************)
BadStamp == 0 - 2

\* the gate lets a run through whenever some earlier run is old enough
ShouldRunFirst(last_runs, min_interval_hours, utcnow) ==
    IF last_runs = <<>> THEN TRUE
    ELSE LET last == last_runs[1]
         IN  IF last = BadStamp THEN TRUE
             ELSE utcnow - last >= min_interval_hours

\* lines 13-21: _should_run, utcnow being the clock it reads
_should_run(last_runs, min_interval_hours, utcnow) ==
    IF last_runs = <<>> THEN TRUE
    ELSE LET last == last_runs[Len(last_runs)]
         IN  IF last = BadStamp THEN TRUE
             ELSE utcnow - last >= min_interval_hours

\* lines 132-204: the plan _compute_distribution returns
_compute_distribution(t, scores, vals) ==
    LET mp == MinersAllocation(FixedRecipients(t), t, scores)
        p == ValidatorsSplit(mp, t, vals)
    IN  Plan(p, Leftover(t, p, SumAmounts(mp)), t)

\* the inputs of a run: --amount, the scores and validators fetched
MintAmounts == {0, 5}
MintScores == {<<<<"P1", 2>>>>}
MintValidators == {<<>>, <<"V1">>}
MinHours == {1, 2}

RECURSIVE NextPayable(_, _)
\* lines 273-275: the next entry after i whose amount is positive, 0: none
NextPayable(p, i) ==
    IF i >= Len(p) THEN 0
    ELSE IF p[i + 1][2] > 0 THEN i + 1
    ELSE NextPayable(p, i + 1)

\* the exit codes of a failed mint: lines 266 and 269, or requests.post
\* raises (line 261)
MintErrors == {1, 6, 7}

\* the exit codes of a failed transfer: lines 288 and 291, or requests.post
\* raises (line 283)
TransferErrors == {1, 9, 10}

\* a failed transfer is logged and the loop goes on
OnTransferErrorContinue == "transfer"

\* lines 288 and 291: return, main is left
OnTransferError == "returned"

\* lines 297-303: payout_rec
PayoutRec(ts, plan) ==
    [timestamp |-> ts, amount |-> plan.amount, payouts |-> plan.payouts,
     leftover |-> plan.leftover]

MintInit ==
    /\ mpc = "idle"
    /\ deployment \in {Deployment(TRUE, <<>>, <<>>),
                       Deployment(TRUE, <<BadStamp>>, <<>>),
                       Deployment(TRUE, <<0>>, <<PayoutRec(0, Plan(<<>>, 0, 0))>>)}
    /\ clock = 0
    /\ args = Args(FALSE, 0)
    /\ mintPlan = Plan(<<>>, 0, 0)
    /\ tIdx = 0
    /\ ledger = Ledger(0, <<>>, 0)
    /\ exitCode = NoExit
    /\ runs = 0
    /\ DistIdle
    /\ RegIdle
    /\ ScoreIdle
    /\ AggIdle
    /\ ParseIdle
    /\ RaceIdle

\* no run is under way
BetweenRuns == mpc \in {"idle", "skipped", "returned"}

\* lines 222-227: the deployment file does not hold JSON
ReadFails ==
    /\ BetweenRuns
    /\ runs < MaxRuns
    /\ ~deployment.readable
    /\ mpc' = "returned"
    /\ exitCode' = 3
    /\ runs' = runs + 1
    /\ ledger' = Ledger(0, <<>>, 0)
    /\ UNCHANGED <<deployment, clock, args, mintPlan, tIdx>>

\* lines 234-237: the interval has not elapsed and --force is not given
SkipRun ==
    /\ BetweenRuns
    /\ runs < MaxRuns
    /\ deployment.readable
    /\ \E min_hours \in MinHours :
          /\ ~_should_run(deployment.lastRuns, min_hours, clock)
          /\ args' = Args(FALSE, min_hours)
    /\ mpc' = "skipped"
    /\ exitCode' = 0
    /\ runs' = runs + 1
    /\ ledger' = Ledger(0, <<>>, 0)
    /\ UNCHANGED <<deployment, clock, mintPlan, tIdx>>

\* lines 234-249: the run is admitted and the plan computed
AdmitRun ==
    /\ BetweenRuns
    /\ runs < MaxRuns
    /\ deployment.readable
    /\ \E force \in BOOLEAN, min_hours \in MinHours :
          /\ force \/ _should_run(deployment.lastRuns, min_hours, clock)
          /\ args' = Args(force, min_hours)
    /\ \E amount \in MintAmounts, scores \in MintScores, vals \in MintValidators :
          mintPlan' = _compute_distribution(amount, scores, vals)
    /\ mpc' = "mint"
    /\ exitCode' = NoExit
    /\ tIdx' = 0
    /\ runs' = runs + 1
    /\ ledger' = Ledger(0, <<>>, 0)
    /\ UNCHANGED <<deployment, clock>>

\* lines 251-255: the requests package is missing
RequestsMissing ==
    /\ mpc = "mint"
    /\ mpc' = "returned"
    /\ exitCode' = 5
    /\ UNCHANGED <<deployment, clock, args, mintPlan, tIdx, ledger, runs>>

\* lines 257-269: the mint is acknowledged
MintAcked ==
    /\ mpc = "mint"
    /\ ledger' = [ledger EXCEPT !.mints = @ + 1]
    /\ mpc' = "transfer"
    /\ UNCHANGED <<deployment, clock, args, mintPlan, tIdx, exitCode, runs>>

\* lines 261-269: the mint request raises or is answered with an error
MintFails ==
    /\ mpc = "mint"
    /\ exitCode' \in MintErrors
    /\ mpc' = "returned"
    /\ UNCHANGED <<deployment, clock, args, mintPlan, tIdx, ledger, runs>>

\* lines 273-291: the next positive amount is transferred and acknowledged
TransferAcked ==
    /\ mpc = "transfer"
    /\ NextPayable(mintPlan.payouts, tIdx) # 0
    /\ tIdx' = NextPayable(mintPlan.payouts, tIdx)
    /\ ledger' = [ledger EXCEPT !.transfers = Append(@, mintPlan.payouts[tIdx']),
                                !.requests = @ + 1]
    /\ UNCHANGED <<mpc, deployment, clock, args, mintPlan, exitCode, runs>>

\* lines 283-291: the transfer request raises or is answered with an error
TransferFails ==
    /\ mpc = "transfer"
    /\ NextPayable(mintPlan.payouts, tIdx) # 0
    /\ tIdx' = NextPayable(mintPlan.payouts, tIdx)
    /\ ledger' = [ledger EXCEPT !.requests = @ + 1]
    /\ exitCode' \in TransferErrors
    /\ mpc' = OnTransferError
    /\ UNCHANGED <<deployment, clock, args, mintPlan, runs>>

\* lines 293-307 and 312: the loop is over, the run is recorded
RecordOk ==
    /\ mpc = "transfer"
    /\ NextPayable(mintPlan.payouts, tIdx) = 0
    /\ deployment' =
          Deployment(TRUE, Append(deployment.lastRuns, clock),
                     Append(deployment.payouts, PayoutRec(clock, mintPlan)))
    /\ exitCode' = 0
    /\ mpc' = "returned"
    /\ UNCHANGED <<clock, args, mintPlan, tIdx, ledger, runs>>

\* lines 305-310: the file cannot be opened (it is left as it was) or the
\* dump fails after open(path, "w") truncated it
RecordFails ==
    /\ mpc = "transfer"
    /\ NextPayable(mintPlan.payouts, tIdx) = 0
    /\ \/ deployment' = deployment
       \/ deployment' = [deployment EXCEPT !.readable = FALSE]
    /\ exitCode' = 8
    /\ mpc' = "returned"
    /\ UNCHANGED <<clock, args, mintPlan, tIdx, ledger, runs>>

\* time passes
ClockTick ==
    /\ clock < MaxClock
    /\ clock' = clock + 1
    /\ UNCHANGED <<mpc, deployment, args, mintPlan, tIdx, ledger, exitCode, runs>>

MintNext ==
    \/ ReadFails /\ UNCHANGED <<distVars, regVars, scoreVars, aggVars, parseVars, raceVars>>
    \/ SkipRun /\ UNCHANGED <<distVars, regVars, scoreVars, aggVars, parseVars, raceVars>>
    \/ AdmitRun /\ UNCHANGED <<distVars, regVars, scoreVars, aggVars, parseVars, raceVars>>
    \/ RequestsMissing /\ UNCHANGED <<distVars, regVars, scoreVars, aggVars, parseVars, raceVars>>
    \/ MintAcked /\ UNCHANGED <<distVars, regVars, scoreVars, aggVars, parseVars, raceVars>>
    \/ MintFails /\ UNCHANGED <<distVars, regVars, scoreVars, aggVars, parseVars, raceVars>>
    \/ TransferAcked /\ UNCHANGED <<distVars, regVars, scoreVars, aggVars, parseVars, raceVars>>
    \/ TransferFails /\ UNCHANGED <<distVars, regVars, scoreVars, aggVars, parseVars, raceVars>>
    \/ RecordOk /\ UNCHANGED <<distVars, regVars, scoreVars, aggVars, parseVars, raceVars>>
    \/ RecordFails /\ UNCHANGED <<distVars, regVars, scoreVars, aggVars, parseVars, raceVars>>
    \/ ClockTick /\ UNCHANGED <<distVars, regVars, scoreVars, aggVars, parseVars, raceVars>>

MintSpec == MintInit /\ [][MintNext]_vars

(***************************************************************************)
(* Properties of a mint run.                                               *)
(***************************************************************************)
PositiveAmount(e) == e[2] > 0

\* the transfers the plan asks for
Payable(p) == SelectSeq(p, PositiveAmount)

\* the mint and every transfer of the plan were acknowledged in this run
AllAcknowledged ==
    /\ ledger.mints = 1
    /\ ledger.transfers = Payable(mintPlan.payouts)

\* the step adds to lastRuns or to the payout records
Records ==
    \/ deployment'.lastRuns # deployment.lastRuns
    \/ deployment'.payouts # deployment.payouts

\* C22: a run adds its timestamp and payout record only after the mint and
\* every positive transfer of its plan were acknowledged, and then adds
\* exactly these; a run that ends with the mint or a transfer missing has
\* sent nothing after the failure, returns a non-zero code and records
\* nothing; exit code 0 of an admitted run comes with the record; and a run
\* that has returned sends and records nothing more.
C22_RecordOnlyAfterAcks ==
    [][/\ Records =>
             /\ AllAcknowledged
             /\ ledger' = ledger
             /\ deployment'.lastRuns = Append(deployment.lastRuns, clock)
             /\ deployment'.payouts =
                   Append(deployment.payouts, PayoutRec(clock, mintPlan))
       /\ (mpc \in {"mint", "transfer"} /\ mpc' = "returned" /\ ~AllAcknowledged') =>
             /\ exitCode' # 0
             /\ exitCode' # NoExit
             /\ ~Records
             /\ ledger'.requests <= Len(ledger'.transfers) + 1
       /\ (mpc \in {"mint", "transfer"} /\ mpc' = "returned" /\ exitCode' = 0) =>
             Records
       /\ (BetweenRuns /\ runs' = runs) =>
             /\ ledger' = ledger
             /\ deployment' = deployment]_vars

\* the second run of a file with no history is recorded with its four
\* transfers acknowledged; the first run failed and left no record
C22_Witness ==
    /\ mpc = "returned"
    /\ exitCode = 0
    /\ runs = 2
    /\ ledger.mints = 1
    /\ Len(ledger.transfers) = 4
    /\ ledger.requests = 4
    /\ deployment.lastRuns = <<clock>>
    /\ deployment.payouts = <<PayoutRec(clock, mintPlan)>>

(***************************************************************************)
(* Two processes in allocate_vm_to_miner at once, lines 560-571.  Each     *)
(* has its own deployments list; they share DEPLOYMENTS_FILE only, which   *)
(* nothing locks.  open(path, "w") of save_deployments empties the file,   *)
(* and the buffered dump reaches it in one write when the file is closed;  *)
(* a load in between finds no JSON and takes the registry to be empty      *)
(* (lines 462-465).  A process that finds no inactive record goes on to    *)
(* the compute provider (line 573) and is not followed further here.       *)
(***************************************************************************)
Procs == {"a", "b"}

\* the participant each process allocates for
MinerOf(p) == IF p = "a" THEN "m1" ELSE "m2"

\* a process: position, the list load_deployments gave it, the position of
\* the record it binds (0: none) and the record it returns
Proc(ppos, deployments, idx, assigned) ==
    [pc |-> ppos, deployments |-> deployments, idx |-> idx, assigned |-> assigned]

\* the registries the processes may find: up to MaxRecords records, each
\* inactive or bound to an earlier participant
RaceRecords(k) ==
    {NewRecord(VmIds[k], NULL, 0),
     Bind(NewRecord(VmIds[k], NULL, 0), "m0", "default-vm", 0)}

RaceRegistries ==
    UNION {{r \in [1 .. n -> UNION {RaceRecords(k) : k \in 1 .. n}] :
               \A k \in 1 .. n : r[k] \in RaceRecords(k)} : n \in 0 .. MaxRecords}

RaceInit ==
    /\ proc = [p \in Procs |-> Proc("start", <<>>, 0, NULL)]
    /\ file \in {save_deployments(r) : r \in RaceRegistries}
    /\ sameFile = FALSE
    /\ nextVm = 0
    /\ now = 0
    /\ lastCall = NoCall
    /\ DistIdle
    /\ ScoreIdle
    /\ AggIdle
    /\ ParseIdle
    /\ MintIdle

\* line 562: deployments = load_deployments()
RaceLoad(p) ==
    /\ proc[p].pc = "start"
    /\ proc' = [proc EXCEPT ![p] = Proc("loaded", load_deployments(file), 0, NULL)]
    /\ UNCHANGED file

\* lines 564-573: the loop finds no inactive record
RaceNoneInactive(p) ==
    /\ proc[p].pc = "loaded"
    /\ NeedsProvider(proc[p].deployments)
    /\ proc' = [proc EXCEPT ![p].pc = "create"]
    /\ UNCHANGED file

\* lines 564-570: the first inactive record is bound in the process's own
\* list and save_deployments opens the file
RaceBind(p) ==
    /\ proc[p].pc = "loaded"
    /\ \E i \in {ReuseIndex(proc[p].deployments)} :
          /\ i # 0
          /\ proc' = [proc EXCEPT
                         ![p] = Proc("writing", proc[p].deployments, i,
                                     Bind(proc[p].deployments[i], MinerOf(p),
                                          "default-vm", now))]
    /\ file' = <<>>

\* lines 485-486 and 571: the list is written and the record returned
RaceSave(p) ==
    /\ proc[p].pc = "writing"
    /\ file' = save_deployments(
                  [proc[p].deployments EXCEPT ![proc[p].idx] = proc[p].assigned])
    /\ proc' = [proc EXCEPT ![p].pc = "done"]

RaceNext ==
    \/ \E p \in Procs : RaceLoad(p) /\ UNCHANGED <<sameFile, nextVm, now, lastCall>>
          /\ UNCHANGED <<distVars, scoreVars, aggVars, parseVars, mintVars>>
    \/ \E p \in Procs : RaceNoneInactive(p) /\ UNCHANGED <<sameFile, nextVm, now, lastCall>>
          /\ UNCHANGED <<distVars, scoreVars, aggVars, parseVars, mintVars>>
    \/ \E p \in Procs : RaceBind(p) /\ UNCHANGED <<sameFile, nextVm, now, lastCall>>
          /\ UNCHANGED <<distVars, scoreVars, aggVars, parseVars, mintVars>>
    \/ \E p \in Procs : RaceSave(p) /\ UNCHANGED <<sameFile, nextVm, now, lastCall>>
          /\ UNCHANGED <<distVars, scoreVars, aggVars, parseVars, mintVars>>

RaceSpec == RaceInit /\ [][RaceNext]_vars

(***************************************************************************)
(* Properties of concurrent allocation.                                    *)
(***************************************************************************)
\* the positions of the saved registry bound to miner
BoundTo(miner) ==
    {j \in 1 .. Len(Registry) :
        Registry[j].status = "active" /\ Registry[j].minerAddress = miner}

\* both processes have returned a record, having loaded the same registry
BothReturnedFromSameLoad ==
    /\ \A p \in Procs : proc[p].pc = "done"
    /\ proc["a"].deployments = proc["b"].deployments

\* C23: two processes that load the registry before either saves both
\* return its first inactive record, each bound to its own participant,
\* and the saved registry binds that record to one of the two and no
\* record to the other.
C23_LostUpdate ==
    BothReturnedFromSameLoad =>
        /\ \A p \in Procs :
              /\ proc[p].idx = FirstInactive(proc[p].deployments)
              /\ proc[p].assigned.status = "active"
              /\ proc[p].assigned.minerAddress = MinerOf(p)
        /\ proc["a"].assigned.vmId = proc["b"].assigned.vmId
        /\ \E w \in Procs :
              /\ BoundTo(MinerOf(w)) = {proc[w].idx}
              /\ \A l \in Procs \ {w} : BoundTo(MinerOf(l)) = {}

\* both were given vm1 although vm2 was free; the file binds vm1 to m2 only
C23_Witness ==
    /\ BothReturnedFromSameLoad
    /\ proc["a"].assigned.vmId = "vm1"
    /\ proc["b"].assigned.vmId = "vm1"
    /\ proc["a"].assigned.minerAddress = "m1"
    /\ proc["b"].assigned.minerAddress = "m2"
    /\ Len(Registry) = 2
    /\ Registry[1].minerAddress = "m2"
    /\ Registry[2].status = "inactive"

(***************************************************************************)
(* Properties of allocate_vm_to_miner when it creates an instance.         *)
(***************************************************************************)
\* the responses that hold the one instance asked for
OneInstance == ResponseKinds \ {"empty"}

\* the registry r with one more record, the new instance v bound to miner
GrownByBound(r, v, miner, name, t) ==
    Append(r, Bind(NewRecord(v, NULL, t), miner, name, t))

\* C24: when no record is inactive and the provider answers with one new
\* instance, allocate leaves the records there were as they are, appends
\* one record, the new instance active and bound to the requester, and
\* returns it.
C24_CreateBindsNewRecord ==
    [][\A miner \in Miners, name \in InstanceNames, kind \in OneInstance :
          (/\ lastCall'.op = "allocate"
           /\ now' = now
           /\ AllocateCreate(miner, name, kind)) =>
              /\ lastCall'.outcome = "ok"
              /\ lastCall'.returned = Len(Registry) + 1
              /\ Registry' =
                    GrownByBound(Registry, VmIds[nextVm + 1], miner, name, now)]_vars

(***************************************************************************)
(* Properties of the rolling context of _parse_messages_to_pairs.          *)
(***************************************************************************)
\* the question and the reference message j of the batch carries itself
QuestionOf(j) ==
    IF Skipped(messages[j]) THEN NULL ELSE _extract_question(Decode(messages[j]))

TruthOf(j) ==
    IF Skipped(messages[j]) THEN NULL ELSE _extract_truth(Decode(messages[j]))

RECURSIVE LastQuestion(_)
\* the most recent question among messages 1 .. k of the batch, "" if none
LastQuestion(k) ==
    IF k = 0 THEN ""
    ELSE IF QuestionOf(k) # NULL THEN QuestionOf(k)
    ELSE LastQuestion(k - 1)

RECURSIVE LastTruth(_)
LastTruth(k) ==
    IF k = 0 THEN ""
    ELSE IF TruthOf(k) # NULL THEN TruthOf(k)
    ELSE LastTruth(k - 1)

\* C25: every pair a message gives has the question (reference) of that
\* message or, when it carries none, the most recent one of the earlier
\* messages of the same batch, and "" when there was none.
C25_RollingContext ==
    [][(ppc = "loop" /\ msgIdx' = msgIdx + 1) =>
          \A n \in Len(parsedPairs) + 1 .. Len(parsedPairs') :
              /\ parsedPairs'[n].question = LastQuestion(msgIdx')
              /\ parsedPairs'[n].truth = LastTruth(msgIdx')]_vars

\* the answer of the third message takes question and reference of the
\* first, across a skipped one, and the answer before any context has ""
C25_Witness ==
    /\ ppc = "returned"
    /\ messages = <<Message("json", BareAnswer, NoObj),
                    Message("json", ContextOnly, NoObj),
                    Message("wrapped", BareAnswer, NoObj)>>
    /\ parsedPairs = <<ParsedPair("w2", "", "", "a2"),
                       ParsedPair("w2", "q2", "t2", "a2")>>

(***************************************************************************)
(* Properties of _compute_distribution at its edges.                       *)
(***************************************************************************)
\* no wallet has a positive score
NoPositiveScore == \A i \in 1 .. Len(avg_scores) : avg_scores[i][2] <= 0

\* floor(35% of total), exactly
ExactMinerPool == (35 * total) \div 100

\* C26: with no positive score in the map nothing is paid from the miner
\* pool and leftover is what the fixed recipients and the validators did
\* not get, at least floor(35% of total); with total 0 the plan is empty
\* and leftover is 0.
C26_EmptyScoresAndZeroTotal ==
    /\ (AfterMiners /\ NoPositiveScore) =>
          /\ minerPlan = FixedRecipients(total)
          /\ miner_alloc_total = 0
    /\ (Returned /\ NoPositiveScore) =>
          /\ \A i \in 1 .. Len(avg_scores) : MinerAmount(avg_scores[i][1]) = 0
          /\ leftover = total - SumAmounts(FixedRecipients(total))
                           - (SumAmounts(payouts) - SumAmounts(minerPlan))
          /\ leftover >= ExactMinerPool
    /\ (Returned /\ total = 0) =>
          /\ payouts = <<>>
          /\ leftover = 0

\* 180 tokens, one wallet with score 0 and one validator: 36 + 36 + 45 are
\* paid and the 63 of the miner pool are the leftover
C26_Witness ==
    /\ Returned
    /\ total = 180
    /\ avg_scores = <<<<"P1", 0>>>>
    /\ Len(validators) = 1
    /\ SumAmounts(payouts) = 117
    /\ leftover = 63

\* C29: of two scored wallets the one with the strictly higher score gets
\* at least as much from the miner pool as the other, and a wallet whose
\* score is 0 or negative gets nothing from it.
C29_MinerPoolMonotone ==
    AfterMiners =>
        /\ \A i, j \in 1 .. Len(avg_scores) :
              avg_scores[i][2] > avg_scores[j][2] =>
                  MinerAmount(avg_scores[i][1]) >= MinerAmount(avg_scores[j][1])
        /\ \A i \in 1 .. Len(avg_scores) :
              avg_scores[i][2] <= 0 => MinerAmount(avg_scores[i][1]) = 0

\* three wallets with different scores, a remainder unit handed out, one
\* wallet with nothing and one clamped score
C29_Witness ==
    /\ Returned
    /\ Len(avg_scores) = 3
    /\ avg_scores[1][2] > avg_scores[2][2]
    /\ avg_scores[3][2] < 0
    /\ MinerAmount(avg_scores[1][1]) > MinerAmount(avg_scores[2][1])
    /\ MinerAmount(avg_scores[2][1]) > 0
    /\ MinerAmount(avg_scores[3][1]) = 0
    /\ miner_alloc_total > SumBases(shares(miners_pool(total),
                                           miner_items(avg_scores),
                                           score_sum(avg_scores)))

(***************************************************************************)
(* Properties of the interval gate of a mint run.                          *)
(***************************************************************************)
\* the last entry of lastRuns is a timestamp less than min_hours old
TooEarly(min_hours) ==
    /\ deployment.lastRuns # <<>>
    /\ deployment.lastRuns[Len(deployment.lastRuns)] # BadStamp
    /\ clock - deployment.lastRuns[Len(deployment.lastRuns)] < min_hours

\* a run starts on a readable deployment file
RunStarts == BetweenRuns /\ runs' = runs + 1 /\ deployment.readable

\* C27: a run without --force that starts less than min-hours after the
\* last timestamp of lastRuns asks the token API for nothing, leaves the
\* deployment file as it is and exits 0; every other run is admitted; and
\* a run without --force that is recorded is recorded at least min-hours
\* after the timestamp before it.
C27_IntervalGate ==
    [][/\ (RunStarts /\ ~args'.force /\ TooEarly(args'.min_hours)) =>
             /\ mpc' = "skipped"
             /\ exitCode' = 0
             /\ deployment' = deployment
             /\ ledger' = Ledger(0, <<>>, 0)
       /\ (RunStarts /\ (args'.force \/ ~TooEarly(args'.min_hours))) =>
             /\ mpc' = "mint"
             /\ deployment' = deployment
       /\ (mpc = "skipped" /\ runs' = runs) =>
             /\ ledger' = ledger
             /\ deployment' = deployment
       /\ (Records /\ ~args.force /\ deployment.lastRuns # <<>>
              /\ deployment.lastRuns[Len(deployment.lastRuns)] # BadStamp) =>
             deployment'.lastRuns[Len(deployment'.lastRuns)]
                - deployment.lastRuns[Len(deployment.lastRuns)] >= args.min_hours]_vars

\* two runs recorded two hours apart, and a third, one hour later with a
\* minimum of two hours, skipped
C27_Witness ==
    /\ mpc = "skipped"
    /\ exitCode = 0
    /\ runs = 3
    /\ clock = 3
    /\ ~args.force
    /\ args.min_hours = 2
    /\ deployment.lastRuns = <<0, 2>>
    /\ Len(deployment.payouts) = 2
    /\ ledger = Ledger(0, <<>>, 0)

(***************************************************************************)
(* Properties of allocate_vm_to_miner on records that are already bound.   *)
(***************************************************************************)
\* C28: allocate leaves every record that is active when the call starts
\* as it is, and the record it returns was inactive or not there before
\* the call.
C28_AllocateKeepsActiveBindings ==
    [][(/\ lastCall'.op = "allocate"
        /\ now' = now
        /\ Allocate) =>
          /\ \A j \in 1 .. Len(Registry) :
                Registry[j].status = "active" =>
                    /\ j <= Len(Registry')
                    /\ Registry'[j] = Registry[j]
          /\ (lastCall'.returned # 0 /\ lastCall'.returned <= Len(Registry)) =>
                Registry[lastCall'.returned].status = "inactive"]_vars

(***************************************************************************)
(* The two copies of the fallback scorer.                                  *)
(***************************************************************************)
\* C30: the nested _numeric_heuristic, used when no API key is set, and the
\* inline block, used when the response is an HTTP error or holds nothing
\* that parses, give the same score for every (reference, candidate) pair:
\* the value the inline block computes is the value of the nested copy, and
\* the value the nested copy returns is the value of the inline block.
C30_FallbackCopiesAgree ==
    /\ spc = "scored" => score_val = _numeric_heuristic(truth, candidate)
    /\ (spc = "returned" /\ oracle.kind = "nokey") =>
           scoreOut = InlineFallback(truth, candidate)

\* the inline block scored a reference written with the unicode minus
\* against a candidate that holds the same integer
C30_Witness ==
    /\ spc = "scored"
    /\ oracle.kind = "http_error"
    /\ truth = <<"U+2212", "2">>
    /\ extract_ints(candidate) = <<(<<"1">>), (<<"-", "2">>)>>
    /\ score_val = 100

====
